---- MODULE Spec2Model ----
(***************************************************************************)
(* A model of poll2's run control (Poll/source/poll2_core.cpp): the        *)
(* command interpreter and the run controller that share the control       *)
(* flags, the FIFO drain Poll::ReadFIFO with its partial-event buffers,    *)
(* Poll::write_data with the 4 GB file ceiling, and Poll::broadcast_data.  *)
(*                                                                         *)
(* The specifications share the variables:                                 *)
(*   Spec       the two threads, interleaved at single flag accesses       *)
(*   SpecFair   Spec with the run controller scheduled fairly              *)
(*   SpecFIFO   successive FIFO drains over word-level FIFO contents       *)
(*   SpecPoll   the threshold wait of a drain, one polling cycle a step    *)
(*   SpecStraddle  one drain of a deep FIFO that ends in a cut event       *)
(*   SpecRunning   Spec from a list-mode run that is going on              *)
(*   SpecRestart   SpecFIFO with runs that end and begin                   *)
(*   SpecBrim   drains of nearly full FIFOs after partial events           *)
(*   SpecFile   the calls of the file handling, one after the other        *)
(*   SpecFlush  the end of a drain: write_data and broadcast_data on       *)
(*              spills of real size, with file sizes at the ceiling        *)
(***************************************************************************)
EXTENDS Integers, Sequences, FiniteSets, TLC

(***************************************************************************)
(* Program constants                                                       *)
(***************************************************************************)
\* File sizes are counted in 4-byte words (TLC's integers have 32 bits, and
\* every size the program adds is a multiple of 4).
\* #define MAX_FILE_SIZE 4294967296ll, that is 2^30 words
MAX_FILE_SIZE == 1073741824
\* the 65552 bytes (two end-of-file buffers) write_data keeps room for: 16388 words
EOF_WORDS == 16388
\* words of spill data in one network packet (char shm_data[40008])
NET_CHUNK_WORDS == 10000
\* unsigned int holds 2^32 byte counts, that is 2^30 word counts
UINT_WORDS == 1073741824

(***************************************************************************)
(* Bounds of the model                                                     *)
(***************************************************************************)
\* number of modules in the crate (n_cards, found at initialize())
NumCards == 2
\* depth of a module's FIFO in words, scaled down
EXTERNAL_FIFO_LENGTH == 6
\* fewer words than this in a FIFO are left for a later drain, scaled down
MIN_FIFO_READ == 2
\* the drain threshold in words, scaled down
threshWords == 3
\* events the hardware produces in SpecFIFO, all modules together
MaxEvents == 2
\* drains followed in SpecFIFO
MaxDrains == 2
\* spills of SpecFlush have up to this many network chunks
MaxChunks == 3
\* #define POLL_TRIES 100: polling cycles of one threshold wait
POLL_TRIES == 100
\* whole events in front of the event a drain cuts
MaxWholeEvents == 5

\* depth of a module FIFO in the drains of SpecStraddle
StraddleFifoLength == 512

\* calls of the file handling followed in SpecFile
MaxCalls == 4

\* command lines the operator enters in Spec
MaxCmds == 2

Mods == 0 .. (NumCards - 1)

Max(a, b) == IF a < b THEN b ELSE a

RECURSIVE SumSeq(_)
SumSeq(s) == IF s = <<>> THEN 0 ELSE Head(s) + SumSeq(Tail(s))

RECURSIVE Flatten(_)
Flatten(ss) == IF ss = <<>> THEN <<>> ELSE Head(ss) \o Flatten(Tail(ss))

VARIABLES
  \* the control flags of class Poll
  kill_all, start_acq, stop_acq, record_data, do_reboot, force_spill,
  acq_running, run_ctrl_exit, had_error, file_open, do_MCA_run,
  shm_mode, is_quiet, debug_mode,
  \* output file options and the MCA arguments
  next_run_num, mca_args,
  \* the output file object, the files it has written, its calls in the last handler
  output_file, disk, sinkLog, sinkData,
  \* the messages the network client sent in the last handler
  netOut,
  \* ReadFIFO: module FIFOs, static partialEvent, the spill buffer of the last drain
  fifo, produced, partialEvent, fifoData, dataWords, drain,
  \* the two threads
  pcC, pcR, cmdLocal, runLocal, cmdsLeft, tick

flagVars == <<kill_all, start_acq, stop_acq, record_data, do_reboot, force_spill,
              acq_running, run_ctrl_exit, had_error, file_open, do_MCA_run,
              shm_mode, is_quiet, debug_mode>>
optVars  == <<next_run_num, mca_args>>
fileVars == <<output_file, disk, sinkLog, sinkData>>
fifoVars == <<fifo, produced, partialEvent>>
bufVars  == <<fifoData, dataWords, drain>>
thrVars  == <<pcC, pcR, cmdLocal, runLocal, cmdsLeft, tick>>
vars == <<flagVars, optVars, fileVars, netOut, fifoVars, bufVars, thrVars>>

(***************************************************************************)
(* The output file object (PollOutputFile, not part of these sources):     *)
(* at most one file open; a file is named by <<run number, suffix>>.       *)
(* disk maps each file written so far to its size when the model first     *)
(* sees it and the word counts of the writes made to it since.             *)
(***************************************************************************)
NoFile == <<0, 0>>

FileWords(f) == f.base + SumSeq(f.writes)

\* next_filename(&run_no, ...): the first run number, from run_no on, with no file
SinkNextFileName(dsk, run) ==
  CHOOSE r \in run .. (run + Cardinality(DOMAIN dsk)) :
    /\ <<r, 0>> \notin DOMAIN dsk
    /\ \A q \in run .. (r - 1) : <<q, 0>> \in DOMAIN dsk

\* is_open()
SinkIsOpen(of) == of.open

\* size(), in words: the size of the file that is open (a closed stream has none: -1)
SinkGetFilesize(of, dsk) == IF of.open THEN FileWords(dsk[of.id]) ELSE -1

\* the file open(..., run_no, ..., is_continuation) creates
SinkNewId(of, dsk, run, continueRun) ==
  IF continueRun THEN <<run, of.id[2] + 1>> ELSE <<SinkNextFileName(dsk, run), 0>>

\* write(words, n): n words appended to the open file; nothing without one
SinkWrite(of, dsk, n) ==
  IF of.open THEN [dsk EXCEPT ![of.id].writes = Append(@, n)] ELSE dsk

(***************************************************************************)
(* Poll's file handling.  These run in whichever thread calls them; w is   *)
(* the part of Poll they read and write:                                   *)
(*   of, disk, log (calls on the output file), data (words last handed to  *)
(*   Write),                                                               *)
(*   net (messages sent), file_open, record_data, next_run_num             *)
(***************************************************************************)
CtlMsg(text, len) == [kind |-> "ctl", text |-> text, len |-> len, words |-> <<>>]

\* close_output_file looking up the next run number whatever continueRun says
close_output_file_Advance(w, continueRun) ==
  LET w1 == [w EXCEPT !.file_open = FALSE]
  IN IF w1.of.open
     THEN [w1 EXCEPT
             !.net = Append(@, [kind |-> "ctl", text |-> "$CLOSE_FILE", len |-> 12, words |-> <<>>]),
             !.of  = [@ EXCEPT !.open = FALSE],
             !.log = Append(@, [op |-> "close", cont |-> continueRun, id |-> w1.of.id, n |-> 0]),
             !.next_run_num = SinkNextFileName(w1.disk, @)]
     ELSE [w1 EXCEPT !.log = Append(@, [op |-> "nofile", cont |-> continueRun, id |-> NoFile, n |-> 0])]

\* a close that does not ask whether a file is open
close_output_file_Always(w, continueRun) ==
  [w EXCEPT
     !.file_open = FALSE,
     !.net = Append(@, CtlMsg("$CLOSE_FILE", 12)),
     !.of  = [@ EXCEPT !.open = FALSE],
     !.log = Append(@, [op |-> "close", cont |-> continueRun, id |-> w.of.id, n |-> 0]),
     !.next_run_num = IF continueRun THEN @ ELSE SinkNextFileName(w.disk, @)]

\* Poll::close_output_file(continueRun)
close_output_file(w, continueRun) ==
  LET w1 == [w EXCEPT !.file_open = FALSE]
  IN IF SinkIsOpen(w1.of)
     THEN [w1 EXCEPT
             !.net = Append(@, CtlMsg("$CLOSE_FILE", 12)),
             !.of  = [@ EXCEPT !.open = FALSE],
             !.log = Append(@, [op |-> "close", cont |-> continueRun, id |-> w1.of.id, n |-> 0]),
             !.next_run_num = IF continueRun THEN @
                              ELSE SinkNextFileName(w1.disk, @)]
     ELSE [w1 EXCEPT !.log = Append(@, [op |-> "nofile", cont |-> continueRun, id |-> NoFile, n |-> 0])]

\* an open that sets file_open before it knows whether the file could be opened
open_output_file_FlagFirst(w, continueRun, ok) ==
  IF ~SinkIsOpen(w.of)
  THEN IF ~ok
       THEN [w EXCEPT !.record_data = FALSE, !.file_open = TRUE,
                      !.log = Append(@, [op |-> "openfail", cont |-> continueRun, id |-> NoFile, n |-> 0])]
       ELSE LET id == SinkNewId(w.of, w.disk, w.next_run_num, continueRun)
            IN [w EXCEPT
                  !.of   = [open |-> TRUE, id |-> id],
                  !.disk = [f \in (DOMAIN w.disk) \cup {id} |->
                              IF f = id THEN [base |-> 0, writes |-> <<>>] ELSE w.disk[f]],
                  !.next_run_num = id[1],
                  !.log  = Append(@, [op |-> "open", cont |-> continueRun, id |-> id, n |-> 0]),
                  !.net  = Append(@, CtlMsg("$OPEN_FILE", 12)),
                  !.file_open = TRUE]
  ELSE [w EXCEPT !.log = Append(@, [op |-> "refused", cont |-> continueRun, id |-> w.of.id, n |-> 0])]

\* Poll::open_output_file(continueRun); ok: whether OpenNewFile can create the file
open_output_file(w, continueRun, ok) ==
  IF ~SinkIsOpen(w.of)
  THEN IF ~ok
       THEN [w EXCEPT !.record_data = FALSE,
                      !.log = Append(@, [op |-> "openfail", cont |-> continueRun, id |-> NoFile, n |-> 0])]
       ELSE LET id == SinkNewId(w.of, w.disk, w.next_run_num, continueRun)
            IN [w EXCEPT
                  !.of   = [open |-> TRUE, id |-> id],
                  !.disk = [f \in (DOMAIN w.disk) \cup {id} |->
                              IF f = id THEN [base |-> 0, writes |-> <<>>] ELSE w.disk[f]],
                  !.next_run_num = id[1],
                  !.log  = Append(@, [op |-> "open", cont |-> continueRun, id |-> id, n |-> 0]),
                  !.net  = Append(@, CtlMsg("$OPEN_FILE", 12)),
                  !.file_open = TRUE]
  ELSE [w EXCEPT !.log = Append(@, [op |-> "refused", cont |-> continueRun, id |-> w.of.id, n |-> 0])]

\* the ceiling test of write_data, current_filesize + (4*nWords + 65552) > MAX_FILE_SIZE,
\* in words; 4*nWords + 65552 is computed in unsigned int
OverCeiling(current_filesize, nWords) ==
  current_filesize + ((nWords + EOF_WORDS) % UINT_WORDS) > MAX_FILE_SIZE

\* the close and reopen of write_data when the ceiling test is true
RotateFile(w, ok) == open_output_file(close_output_file(w, TRUE), TRUE, ok)

\* output_file.Write((char*)data, nWords) at the end of write_data
WriteSpill(w, data, nWords) ==
  [w EXCEPT !.disk = SinkWrite(w.of, @, nWords),
            !.data = SubSeq(data, 1, nWords),
            !.log  = Append(@, [op |-> "write", cont |-> FALSE,
                                id |-> IF w.of.open THEN w.of.id ELSE NoFile, n |-> nWords])]

\* write_data writing the spill before it tests the ceiling
write_data_LateCheck(w, data, nWords, ok1, ok2) ==
  LET w1 == IF ~SinkIsOpen(w.of) THEN open_output_file(w, FALSE, ok1) ELSE w
      current_filesize == SinkGetFilesize(w1.of, w1.disk)
      w2 == WriteSpill(w1, data, nWords)
  IN IF OverCeiling(current_filesize, nWords) THEN RotateFile(w2, ok2) ELSE w2

\* Poll::write_data(data, nWords); ok1, ok2: whether the two opens it may make succeed
write_data(w, data, nWords, ok1, ok2) ==
  LET w1 == IF ~SinkIsOpen(w.of) THEN open_output_file(w, FALSE, ok1) ELSE w
      current_filesize == SinkGetFilesize(w1.of, w1.disk)
      w2 == IF OverCeiling(current_filesize, nWords) THEN RotateFile(w1, ok2) ELSE w1
  IN WriteSpill(w2, data, nWords)

(***************************************************************************)
(* Poll::broadcast_data                                                    *)
(***************************************************************************)
\* client->SendMessage(shm_data, len): the first len bytes of the packet buffer
SendChunk(shm_data, len) ==
  [kind |-> "chunk", text |-> "", len |-> len,
   words |-> [k \in 1 .. (len \div 4) |-> shm_data[k - 1]]]

\* FillChunk copying from the start of the spill for every packet
FillChunk_NoOffset(shm_data, data, net_chunk, num_net_chunks, words_bcast, cnt) ==
  [i \in 0 .. (NET_CHUNK_WORDS + 1) |->
     IF i = 0 THEN net_chunk
     ELSE IF i = 1 THEN num_net_chunks
     ELSE IF i - 2 < cnt THEN data[i - 1]
     ELSE shm_data[i]]

\* the packet buffer after the three memcpy calls: header words 0 and 1, then cnt
\* words of data from word offset words_bcast; the rest keeps what it held
FillChunk(shm_data, data, net_chunk, num_net_chunks, words_bcast, cnt) ==
  [i \in 0 .. (NET_CHUNK_WORDS + 1) |->
     IF i = 0 THEN net_chunk
     ELSE IF i = 1 THEN num_net_chunks
     ELSE IF i - 2 < cnt THEN data[words_bcast + i - 1]
     ELSE shm_data[i]]

\* bytes handed to SendMessage for the last packet of a spill
RemainderBytes(nWords, words_bcast) == (nWords - words_bcast + 2) * 4

\* whether the next packet is a full one
FullChunk(nWords, words_bcast) == nWords - words_bcast > NET_CHUNK_WORDS

RECURSIVE ShmLoop(_, _, _, _, _, _, _)
ShmLoop(data, nWords, num_net_chunks, net_chunk, words_bcast, shm_data, out) ==
  IF ~(words_bcast < nWords) THEN out
  ELSE IF FullChunk(nWords, words_bcast)
       THEN LET buf == FillChunk(shm_data, data, net_chunk, num_net_chunks,
                                 words_bcast, NET_CHUNK_WORDS)
            IN ShmLoop(data, nWords, num_net_chunks, net_chunk + 1,
                       words_bcast + NET_CHUNK_WORDS, buf,
                       Append(out, SendChunk(buf, 4 * (NET_CHUNK_WORDS + 2))))
       ELSE LET buf == FillChunk(shm_data, data, net_chunk, num_net_chunks,
                                 words_bcast, nWords - words_bcast)
            IN ShmLoop(data, nWords, num_net_chunks, net_chunk + 1,
                       nWords, buf,
                       Append(out, SendChunk(buf, RemainderBytes(nWords, words_bcast))))

\* num_net_chunks without the packet of the remainder
NumNetChunks_NoRemainder(nWords) == nWords \div NET_CHUNK_WORDS

\* num_net_chunks of broadcast_data
NumNetChunks(nWords) ==
  (nWords \div NET_CHUNK_WORDS) + (IF nWords % NET_CHUNK_WORDS # 0 THEN 1 ELSE 0)

\* an uninitialised packet buffer (char shm_data[40008] on the stack)
StalePacket == [i \in 0 .. (NET_CHUNK_WORDS + 1) |-> -1]

\* the messages broadcast_data sends for a spill
broadcast_data(data, nWords, shm) ==
  IF shm
  THEN ShmLoop(data, nWords, NumNetChunks(nWords), 1, 0, StalePacket, <<>>)
  ELSE << [kind |-> "packet", text |-> "", len |-> 0, words |-> <<>>] >>

(***************************************************************************)
(* The end of a drain, ReadFIFO's last lines: the spill in fifoData is     *)
(* written to the output file when record_data is set and is broadcast.    *)
(***************************************************************************)
\* the part of Poll the file handling works on, with empty call logs
World ==
  [of |-> output_file, disk |-> disk, log |-> <<>>, data |-> sinkData, net |-> <<>>,
   file_open |-> file_open, record_data |-> record_data, next_run_num |-> next_run_num]

PutWorld(w) ==
  /\ output_file' = w.of
  /\ disk' = w.disk
  /\ sinkLog' = w.log
  /\ sinkData' = w.data
  /\ netOut' = w.net
  /\ file_open' = w.file_open
  /\ record_data' = w.record_data
  /\ next_run_num' = w.next_run_num

\* if (record_data) write_data(fifoData, dataWords);
WriteIfRecording(w, data, nWords, rec, ok1, ok2) ==
  IF rec THEN write_data(w, data, nWords, ok1, ok2) ELSE w

\* broadcast_data(fifoData, dataWords);
Broadcast(w, data, nWords, shm) ==
  [w EXCEPT !.net = @ \o broadcast_data(data, nWords, shm)]

\* if (record_data) write_data(fifoData, dataWords); broadcast_data(fifoData, dataWords);
FlushSpill(w, data, nWords, rec, shm, ok1, ok2) ==
  Broadcast(WriteIfRecording(w, data, nWords, rec, ok1, ok2), data, nWords, shm)

(***************************************************************************)
(* The module FIFOs (PixieInterface, not part of these sources): words are  *)
(* read in the order the hardware wrote them; an event is a header word     *)
(* with channel (bits 0-3), slot (bits 4-7) and event size in words (bits   *)
(* 17-30), followed by size - 1 more words.                                 *)
(***************************************************************************)
\* pif->GetSlotNumber(mod)
GetSlotNumber(mod) == mod + 2

EventHeader(slot, chan, size) == chan + 16 * slot + 131072 * size

\* word j (1 .. size - 1) after the header of event number k; as a header it
\* would name slot 0, which no module has
EventBody(k, j) == 256 * (4 * k + j)

\* the words of event number k of module mod
EventWords(mod, k, size, slotOk) ==
  << EventHeader(IF slotOk THEN GetSlotNumber(mod) ELSE GetSlotNumber(mod) + 1, k, size) >>
    \o [j \in 1 .. (size - 1) |-> EventBody(k, j)]

\* sizes of the events the hardware writes; 0 is a header with an empty size field
EventSizes == {0, 2, 3}

\* the longest event, and with it the longest partial event, of the model
MaxEventWords == CHOOSE s \in EventSizes : \A t \in EventSizes : t <= s

(***************************************************************************)
(* Poll::ReadFIFO.  The spill buffer is the sequence fifoData, the word the *)
(* code calls fifoData[i] being fifoData[i + 1]; it extends past the        *)
(* (EXTERNAL_FIFO_LENGTH + 2) * n_cards words allocated, so that a write    *)
(* past the allocation can be followed.                                     *)
(***************************************************************************)
BufferCapacity == (EXTERNAL_FIFO_LENGTH + 2) * NumCards

BufferSpan == (EXTERNAL_FIFO_LENGTH + 2 + MaxEventWords) * NumCards

At(buf, i) == buf[i + 1]

Put(buf, i, v) == [buf EXCEPT ![i + 1] = v]

\* buf after words[1 .. Len(words)] are stored from index i on
PutAll(buf, i, words) ==
  [j \in 1 .. Len(buf) |->
     IF j - 1 >= i /\ j - 1 < i + Len(words) THEN words[j - i] ELSE buf[j]]

\* the fields of an event header as ReadFIFO extracts them
SlotRead(w) == (w \div 16) % 16
ChanRead(w) == w % 16
EventSizeRead(w) == (w \div 131072) % 16384

\* the parsing loop taking a header with an empty size field for a one-word event
RECURSIVE ParseEvents_ZeroAsOne(_, _, _, _, _)
ParseEvents_ZeroAsOne(buf, parseWords, endWords, mod, eventSize) ==
  IF parseWords >= endWords
  THEN [parseWords |-> parseWords, eventSize |-> eventSize]
  ELSE LET w == At(buf, parseWords)
           size == Max(EventSizeRead(w), 1)
       IN IF SlotRead(w) # GetSlotNumber(mod) \/ ChanRead(w) > 15
          THEN [parseWords |-> parseWords, eventSize |-> size]
          ELSE ParseEvents_ZeroAsOne(buf, parseWords + size, endWords, mod, size)

\* the parsing loop: from parseWords, step event by event until the end of the
\* module's words is reached or passed, or a header fails a check
RECURSIVE ParseEvents(_, _, _, _, _)
ParseEvents(buf, parseWords, endWords, mod, eventSize) ==
  IF parseWords >= endWords
  THEN [parseWords |-> parseWords, eventSize |-> eventSize]
  ELSE LET w == At(buf, parseWords)
           size == EventSizeRead(w)
       IN IF SlotRead(w) # GetSlotNumber(mod) \/ ChanRead(w) > 15 \/ size = 0
          THEN [parseWords |-> parseWords, eventSize |-> size]
          ELSE ParseEvents(buf, parseWords + size, endWords, mod, size)

\* bool virtualChannel = ((fifoData[parseWords] & 0x20000000) != 0);
VirtualChannel(w) == (w \div 536870912) % 2 = 1

\* statsHandler->AddEvent(mod, chanRead, sizeof(word_t) * eventSize);
StatsEvent(mod, w) == [mod |-> mod, chan |-> ChanRead(w), bytes |-> 4 * EventSizeRead(w)]

\* the calls of AddEvent the parsing loop makes: one for every header that passes the
\* checks and is not of a virtual channel, made before the loop steps over the event
RECURSIVE AddedEvents(_, _, _, _)
AddedEvents(buf, parseWords, endWords, mod) ==
  IF parseWords >= endWords THEN <<>>
  ELSE LET w == At(buf, parseWords)
           size == EventSizeRead(w)
       IN IF SlotRead(w) # GetSlotNumber(mod) \/ ChanRead(w) > 15 \/ size = 0
          THEN <<>>
          ELSE (IF VirtualChannel(w) THEN <<>> ELSE << StatsEvent(mod, w) >>)
                 \o AddedEvents(buf, parseWords + size, endWords, mod)

\* the running state of a drain; mod is the module the loop is at, copied[m] whether
\* the loop has copied partialEvent[m] into the spill buffer, fifoLength the depth at
\* which a module FIFO counts as full
DrainStart(buf, fifos, partials, hadErr, stopAcq) ==
  [buf |-> buf, fifoLength |-> EXTERNAL_FIFO_LENGTH, dataWords |-> 0, fifo |-> fifos, partialEvent |-> partials,
   result |-> "spill", topWritten |-> 0, had_error |-> hadErr, stop_acq |-> stopAcq,
   pre |-> partials, got |-> [m \in Mods |-> <<>>], out |-> [m \in Mods |-> <<>>],
   mod |-> -1, copied |-> [m \in Mods |-> FALSE], added |-> [m \in Mods |-> <<>>]]

\* a module below MIN_FIFO_READ that is passed over without a segment
EmptySegment_Skipped(st, mod) == st

\* an empty segment that takes the partial event of the module with it
EmptySegment_Flush(st, mod) ==
  LET held == st.partialEvent[mod]
  IN [st EXCEPT !.buf = PutAll(Put(Put(@, st.dataWords, 2 + Len(held)),
                                  st.dataWords + 1, mod),
                              st.dataWords + 2, held),
               !.dataWords = @ + 2 + Len(held),
               !.topWritten = Max(@, st.dataWords + 2 + Len(held)),
               !.out = [@ EXCEPT ![mod] = held],
               !.partialEvent = [@ EXCEPT ![mod] = <<>>]]

\* fifoData[dataWords++] = 2; fifoData[dataWords++] = mod;
EmptySegment(st, mod) ==
  [st EXCEPT !.buf = Put(Put(@, st.dataWords, 2), st.dataWords + 1, mod),
             !.dataWords = @ + 2,
             !.topWritten = Max(@, st.dataWords + 2)]

\* an abort that does not ask for the stop
AbortDrain_NoStop(st, why) ==
  [st EXCEPT !.result = why, !.had_error = TRUE]

\* had_error = true; stop_acq = true; return false;
AbortDrain(st, why) ==
  [st EXCEPT !.result = why, !.had_error = TRUE, !.stop_acq = TRUE]

\* the first word of a segment that loses its two header words
SegmentLength_NoHeader(nW) == nW

\* fifoData[dataWords - 2] = nWords[mod] + 2;
SegmentLength(nW) == nW + 2

\* a partial event made of as many words as the event still misses
PartialSize_Missing(eventSize, missingWords) == missingWords

\* a partial event that loses its last word
PartialSize_Short(eventSize, missingWords) == eventSize - missingWords - 1

\* word_t partialSize = eventSize - missingWords;
PartialSize(eventSize, missingWords) == eventSize - missingWords

\* the outcome of the parse of a module whose words went into the buffer at spillPos (the code's dataWords)
AfterParse(st, mod, spillPos, nW) ==
  LET p == ParseEvents(st.buf, spillPos, spillPos + nW, mod, 0)
      parseWords == p.parseWords
      eventSize == p.eventSize
      added == AddedEvents(st.buf, spillPos, spillPos + nW, mod)
  IN IF parseWords > spillPos + nW
     THEN \* an event was not completely pulled from the FIFO
          LET missingWords == parseWords - spillPos - nW
              partialSize == PartialSize(eventSize, missingWords)
              kept == [i \in 1 .. partialSize |-> At(st.buf, parseWords - eventSize + i - 1)]
              n2 == nW - partialSize
          IN [st EXCEPT !.partialEvent[mod] = kept,
                        !.added[mod] = added,
                        !.buf = Put(@, spillPos - 2, SegmentLength(n2)),
                        !.dataWords = spillPos + n2,
                        !.out[mod] = [i \in 1 .. n2 |-> At(st.buf, spillPos + i - 1)]]
     ELSE IF parseWords < spillPos + nW
     THEN AbortDrain([st EXCEPT !.added[mod] = added], "corrupt")
     ELSE [st EXCEPT !.buf = Put(@, spillPos - 2, SegmentLength(nW)),
                     !.added[mod] = added,
                     !.dataWords = spillPos + nW,
                     !.out[mod] = [i \in 1 .. nW |-> At(st.buf, spillPos + i - 1)]]

\* a partial event that is kept when its words have been parsed
ClearPartial_Kept(partials, mod) == partials

\* partialEvent[mod].clear();
ClearPartial(partials, mod) == [partials EXCEPT ![mod] = <<>>]

\* one pass of the loop over the modules; nWords[mod] words are in the FIFO
ReadModule(st, mod, nWords, readOk) ==
  LET st0 == [st EXCEPT !.mod = mod]
  IN IF nWords[mod] < MIN_FIFO_READ THEN EmptySegment(st0, mod)
     ELSE IF nWords[mod] >= st.fifoLength THEN AbortDrain(st0, "full")
     ELSE LET spillPos == st0.dataWords + 2
              partial == st0.partialEvent[mod]
              words == SubSeq(st0.fifo[mod], 1, nWords[mod])
              st1 == [st0 EXCEPT !.buf = PutAll(Put(@, spillPos - 1, mod), spillPos, partial),
                                 !.topWritten = Max(@, spillPos + Len(partial)),
                                 !.copied[mod] = TRUE]
          IN IF ~readOk
             THEN AbortDrain(st1, "readfail")
             ELSE AfterParse(
                    [st1 EXCEPT !.buf = PutAll(@, spillPos + Len(partial), words),
                                !.topWritten = Max(@, spillPos + Len(partial) + nWords[mod]),
                                !.fifo[mod] = SubSeq(@, nWords[mod] + 1, Len(@)),
                                !.got[mod] = words,
                                !.partialEvent = ClearPartial(@, mod)],
                    mod, spillPos, nWords[mod] + Len(partial))

\* for (mod = 0; mod < n_cards; mod++), left by the return of an abort
RECURSIVE ModuleLoop(_, _, _, _)
ModuleLoop(st, mod, nWords, failMod) ==
  IF mod >= NumCards \/ st.result # "spill" THEN st
  ELSE ModuleLoop(ReadModule(st, mod, nWords, mod # failMod), mod + 1, nWords, failMod)

\* a readData that does not wait for the threshold
ReadData_Always(nWords, stopAcq) == TRUE

\* bool readData = (*maxWords > threshWords || stop_acq);
ReadData(nWords, stopAcq) ==
  (\E m \in Mods : nWords[m] > threshWords) \/ stopAcq

(***************************************************************************)
(* The state the constructor Poll::Poll() leaves                           *)
(***************************************************************************)
NoArgs == [useRoot |-> FALSE, totalTime |-> 0, basename |-> "MCA"]

NoDrain ==
  [count |-> 0, result |-> "none", prev |-> "none", rec |-> FALSE, shm |-> FALSE,
   nWords |-> [m \in Mods |-> 0],
   pre |-> [m \in Mods |-> <<>>], got |-> [m \in Mods |-> <<>>],
   out |-> [m \in Mods |-> <<>>], post |-> [m \in Mods |-> <<>>], overrun |-> FALSE,
   err |-> FALSE, stop |-> FALSE, abortMod |-> -1, copied |-> [m \in Mods |-> FALSE],
   busy |-> FALSE, added |-> [m \in Mods |-> <<>>]]

ClosedFile == [open |-> FALSE, id |-> NoFile]

InitPollFlags ==
  /\ kill_all = FALSE /\ start_acq = FALSE /\ stop_acq = FALSE
  /\ do_reboot = FALSE /\ force_spill = FALSE
  /\ run_ctrl_exit = FALSE /\ had_error = FALSE /\ do_MCA_run = FALSE
  /\ is_quiet = FALSE /\ debug_mode = FALSE

InitIdleThreads ==
  /\ pcC = "idle" /\ pcR = "idle"
  /\ cmdLocal = <<>> /\ runLocal = <<>>
  /\ cmdsLeft = 0 /\ tick = <<>>

InitNoFifo ==
  /\ fifo = [m \in Mods |-> <<>>]
  /\ produced = [m \in Mods |-> 0]
  /\ partialEvent = [m \in Mods |-> <<>>]

(***************************************************************************)
(* SpecFlush: spills of up to MaxChunks network packets are flushed while  *)
(* the file is closed, nearly empty or within a spill of the 4 GB ceiling. *)
(***************************************************************************)
\* word i of a spill of SpecFlush
SpillWord(i) == 7 * i + 3

SpillSizes == { c * NET_CHUNK_WORDS + d : c \in 0 .. (MaxChunks - 1), d \in {1, NET_CHUNK_WORDS} }

\* sizes of the open file: empty, and the ceiling less 0, 1 and NET_CHUNK_WORDS words
StartSizes ==
  {0} \cup { MAX_FILE_SIZE - EOF_WORDS - k : k \in {0, 1, NET_CHUNK_WORDS} }

InitFlush ==
  /\ InitPollFlags /\ InitIdleThreads /\ InitNoFifo
  /\ acq_running = TRUE
  /\ record_data \in BOOLEAN
  /\ shm_mode \in BOOLEAN
  /\ next_run_num = 1
  /\ mca_args = NoArgs
  /\ \/ /\ output_file = ClosedFile
        /\ disk = <<>>
     \/ /\ output_file = [open |-> TRUE, id |-> <<1, 0>>]
        /\ \E s \in StartSizes : disk = (<<1, 0>> :> [base |-> s, writes |-> <<>>])
  /\ file_open = output_file.open
  /\ sinkLog = <<>> /\ sinkData = <<>> /\ netOut = <<>>
  /\ fifoData = <<>> /\ dataWords = 0 /\ drain = NoDrain

\* the end of the drain, for a spill of nWords words (one drain per behaviour: the
\* initial states range over the files a run can have reached)
Flush(nWords, ok1, ok2) ==
  /\ drain.result = "none"
  \* an open that is not made has no outcome to choose
  /\ ~ok1 => (record_data /\ ~output_file.open)
  /\ ~ok2 => (record_data /\ output_file.open
               /\ OverCeiling(SinkGetFilesize(output_file, disk), nWords))
  /\ LET data == [i \in 1 .. nWords |-> SpillWord(i)]
     IN /\ fifoData' = data
        /\ dataWords' = nWords
        /\ PutWorld(FlushSpill(World, data, nWords, record_data, shm_mode, ok1, ok2))
  /\ drain' = [NoDrain EXCEPT !.count = drain.count + 1, !.result = "spill",
                              !.rec = record_data, !.shm = shm_mode]
  /\ UNCHANGED <<kill_all, start_acq, stop_acq, do_reboot, force_spill, acq_running,
                 run_ctrl_exit, had_error, do_MCA_run, shm_mode, is_quiet, debug_mode>>
  /\ UNCHANGED <<mca_args, fifoVars, thrVars>>

NextFlush == \E nWords \in SpillSizes, ok1 \in BOOLEAN, ok2 \in BOOLEAN : Flush(nWords, ok1, ok2)

SpecFlush == InitFlush /\ [][NextFlush]_vars

\* ReadFIFO has not been called yet
NoPass == [over |-> FALSE, stop |-> FALSE, forced |-> FALSE]

\* what ReadFIFO finds when the poll loop is over: over, whether a module holds more
\* than threshWords words; stop and forced, stop_acq and force_spill as it reads them
PassLocals(nWords) ==
  [over |-> \E m \in Mods : nWords[m] > threshWords, stop |-> stop_acq,
   forced |-> force_spill]

(***************************************************************************)
(* SpecFIFO: acquisition is running; the hardware writes events into the   *)
(* module FIFOs, the operator may ask for a spill or a stop, and the run    *)
(* controller's ticks drain the FIFOs.                                      *)
(***************************************************************************)
InitFIFO ==
  /\ InitPollFlags /\ InitNoFifo
  /\ pcC = "idle" /\ pcR = "idle"
  /\ cmdLocal = <<>> /\ runLocal = NoPass
  /\ cmdsLeft = 0 /\ tick = <<>>
  /\ acq_running = TRUE
  /\ record_data \in BOOLEAN
  /\ shm_mode = FALSE
  /\ next_run_num = 1
  /\ mca_args = NoArgs
  /\ output_file = (IF record_data THEN [open |-> TRUE, id |-> <<1, 0>>] ELSE ClosedFile)
  /\ disk = (IF record_data THEN (<<1, 0>> :> [base |-> 0, writes |-> <<>>]) ELSE <<>>)
  /\ file_open = output_file.open
  /\ sinkLog = <<>> /\ sinkData = <<>> /\ netOut = <<>>
  /\ fifoData = [i \in 1 .. BufferSpan |-> -1]
  /\ dataWords = 0
  /\ drain = NoDrain

\* the process has not died of a write past the end of the spill buffer
Alive == drain.result # "crash"

\* the hardware writes event number produced[m] of module m into its FIFO
HwEvent(m, size, slotOk) ==
  /\ Alive /\ acq_running
  /\ SumSeq([i \in 1 .. NumCards |-> produced[i - 1]]) < MaxEvents
  /\ Len(fifo[m]) + Max(size, 1) <= EXTERNAL_FIFO_LENGTH
  /\ fifo' = [fifo EXCEPT ![m] = @ \o EventWords(m, produced[m], size, slotOk)]
  /\ produced' = [produced EXCEPT ![m] = @ + 1]
  /\ UNCHANGED <<flagVars, optVars, fileVars, netOut, partialEvent, bufVars, thrVars>>

\* command "spill" while acquisition is running (had_error = false; comes first in
\* every command)
cmd_spill ==
  /\ Alive /\ acq_running
  /\ had_error' = FALSE
  /\ force_spill' = TRUE
  /\ UNCHANGED <<kill_all, start_acq, stop_acq, record_data, do_reboot, acq_running,
                 run_ctrl_exit, file_open, do_MCA_run, shm_mode, is_quiet,
                 debug_mode>>
  /\ UNCHANGED <<optVars, fileVars, netOut, fifoVars, bufVars, thrVars>>

\* command "stopacq", Poll::StopAcq, while acquisition is running
cmd_stop ==
  /\ Alive /\ acq_running
  /\ had_error' = FALSE
  /\ stop_acq' = TRUE
  /\ UNCHANGED <<kill_all, start_acq, record_data, do_reboot, force_spill, acq_running,
                 run_ctrl_exit, file_open, do_MCA_run, shm_mode, is_quiet,
                 debug_mode>>
  /\ UNCHANGED <<optVars, fileVars, netOut, fifoVars, bufVars, thrVars>>

\* what the last drain did, for the properties: err and stop are had_error and
\* stop_acq as ReadFIFO returned, abortMod the module at which it returned false,
\* busy whether a module's run status was 1 after EndRun
DrainRecord(st, nWords, overrun) ==
  [count |-> drain.count + 1, result |-> st.result, prev |-> drain.result,
   rec |-> record_data, shm |-> shm_mode,
   nWords |-> nWords, pre |-> st.pre, got |-> st.got, out |-> st.out,
   post |-> st.partialEvent, overrun |-> overrun,
   err |-> st.had_error, stop |-> st.stop_acq,
   abortMod |-> IF st.result = "spill" THEN -1 ELSE st.mod, copied |-> st.copied,
   busy |-> FALSE, added |-> st.added]

\* if (stop_acq) { EndRun; stop_acq = false; acq_running = false; for each module
\* still busy: force_spill = true, ReadFIFO() (which returns at once); had_error
\* if a module did not end its run }
HandleStop(stopAcq, forceSpill, hadError, busy, endErr) ==
  IF stopAcq
  THEN /\ stop_acq' = FALSE
       /\ acq_running' = FALSE
       /\ force_spill' = (forceSpill \/ busy)
       /\ had_error' = (hadError \/ endErr)
  ELSE /\ stop_acq' = FALSE
       /\ acq_running' = acq_running
       /\ force_spill' = forceSpill
       /\ had_error' = hadError

\* the outcomes an open made by write_data can have: it is made when the file is
\* closed (first) or when the ceiling test is true (second)
FirstOpenOutcomes(rec) ==
  IF rec /\ ~output_file.open THEN BOOLEAN ELSE {TRUE}

SecondOpenOutcomes(rec, nWords) ==
  IF rec /\ output_file.open /\ OverCeiling(SinkGetFilesize(output_file, disk), nWords)
  THEN BOOLEAN ELSE {TRUE}

\* a tick of the run controller while acquisition is running: ReadFIFO(), then the
\* handling of a stop.  nWords: what CheckFIFOWords returned last; failMod: the module
\* whose ReadFIFOWords fails, if any.  Within: ok1, ok2 are the outcomes of the opens
\* write_data makes; crash: a write past the end of the buffer kills the process;
\* busy, endErr: what CheckRunStatus reports after EndRun
AcqTick(nWords, failMod) ==
  /\ Alive /\ acq_running
  /\ drain.count < MaxDrains
  /\ \A m \in Mods : nWords[m] <= Len(fifo[m])
  /\ UNCHANGED <<kill_all, start_acq, do_reboot, run_ctrl_exit, do_MCA_run, shm_mode,
                 is_quiet, debug_mode, mca_args, produced, pcC, pcR, cmdLocal, cmdsLeft,
                 tick>>
  /\ runLocal' = PassLocals(nWords)
  /\ IF ReadData(nWords, stop_acq) \/ force_spill
     THEN LET st == ModuleLoop(DrainStart(fifoData, fifo, partialEvent, had_error, stop_acq),
                               0, nWords, failMod)
              overrun == st.topWritten > BufferCapacity
              emits == st.result = "spill"
          IN /\ failMod # -1 => st.result = "readfail"
             /\ \E crash \in (IF overrun THEN BOOLEAN ELSE {FALSE}) :
                  IF crash
                  THEN /\ drain' = [drain EXCEPT !.result = "crash", !.prev = drain.result,
                                               !.count = @ + 1]
                       /\ UNCHANGED <<stop_acq, record_data, force_spill, acq_running,
                                      had_error, file_open, next_run_num, fileVars, netOut,
                                      fifo, partialEvent, fifoData, dataWords>>
                  ELSE /\ fifo' = st.fifo
                       /\ partialEvent' = st.partialEvent
                       /\ fifoData' = st.buf
                       /\ dataWords' = st.dataWords
                       /\ IF emits
                          THEN \E ok1 \in FirstOpenOutcomes(record_data),
                                  ok2 \in SecondOpenOutcomes(record_data, st.dataWords) :
                                 PutWorld(FlushSpill(World, st.buf, st.dataWords,
                                                     record_data, shm_mode, ok1, ok2))
                          ELSE PutWorld(World)
                       /\ \E busy \in (IF st.stop_acq THEN BOOLEAN ELSE {FALSE}),
                             endErr \in (IF st.stop_acq THEN BOOLEAN ELSE {FALSE}) :
                            /\ drain' = [DrainRecord(st, nWords, overrun) EXCEPT !.busy = busy]
                            /\ HandleStop(st.stop_acq, FALSE, st.had_error, busy, endErr)
     ELSE /\ failMod = -1
          /\ PutWorld(World)
          /\ HandleStop(FALSE, force_spill, had_error, FALSE, FALSE)
          /\ UNCHANGED <<fifo, partialEvent, bufVars>>

NextFIFO ==
  \/ \E m \in Mods, size \in EventSizes, slotOk \in BOOLEAN :
       (~slotOk => size = 2) /\ HwEvent(m, size, slotOk)
  \/ cmd_spill
  \/ cmd_stop
  \/ \E nWords \in [Mods -> 0 .. EXTERNAL_FIFO_LENGTH], failMod \in Mods \cup {-1} :
       AcqTick(nWords, failMod)

SpecFIFO == InitFIFO /\ [][NextFIFO]_vars

(***************************************************************************)
(* SpecRestart: SpecFIFO, without a file, with runs that end and begin:    *)
(* once a stop has ended the run the operator may enter startacq, and the  *)
(* run controller starts the next list-mode run.                           *)
(***************************************************************************)
\* command "startacq", Poll::StartAcq, while acquisition is not running
cmd_startacq ==
  /\ Alive /\ ~acq_running /\ ~do_MCA_run
  /\ had_error' = FALSE
  /\ start_acq' = TRUE
  /\ UNCHANGED <<kill_all, stop_acq, record_data, do_reboot, force_spill, acq_running,
                 run_ctrl_exit, file_open, do_MCA_run, shm_mode, is_quiet,
                 debug_mode>>
  /\ UNCHANGED <<optVars, fileVars, netOut, fifoVars, bufVars, thrVars>>

\* if (start_acq && !acq_running) { if (pif->StartListModeRun(LIST_MODE_RUN, NEW_RUN))
\* acq_running = true; else { acq_running = false; had_error = true; } start_acq = false; }
StartListMode(started) ==
  /\ Alive /\ start_acq /\ ~acq_running
  /\ acq_running' = started
  /\ had_error' = (had_error \/ ~started)
  /\ start_acq' = FALSE
  /\ UNCHANGED <<kill_all, stop_acq, record_data, do_reboot, force_spill,
                 run_ctrl_exit, file_open, do_MCA_run, shm_mode, is_quiet,
                 debug_mode>>
  /\ UNCHANGED <<optVars, fileVars, netOut, fifoVars, bufVars, thrVars>>

NextRestart ==
  \/ NextFIFO
  \/ cmd_startacq
  \/ \E started \in BOOLEAN : StartListMode(started)

\* the runs of SpecRestart are not recorded
InitRestart == InitFIFO /\ ~record_data

SpecRestart == InitRestart /\ [][NextRestart]_vars

\* C37: when a new list-mode run starts every partial-event buffer is empty: words
\* kept from a cut event of an earlier run, after its last drain or after a drain
\* that was given up, are not put in front of the first segment of a later run.
C37_PartialEmptyAtStart ==
  [][ (~acq_running /\ acq_running') => \A m \in Mods : partialEvent'[m] = <<>> ]_vars

(***************************************************************************)
(* SpecFile: the file handling of Poll called MaxCalls times, one call     *)
(* after the other and in any order, from a closed file or from an open    *)
(* file that is empty or at the ceiling.  cmdLocal holds the calls the     *)
(* output file has seen so far, by name and continueRun.                   *)
(***************************************************************************)
\* what StartRun does with the output file: if (output_file.IsOpen()) close_output_file();
\* if (!open_output_file()) return false; record_data = true;
StartRunFile(w, ok) ==
  LET w1 == IF SinkIsOpen(w.of) THEN close_output_file(w, FALSE) ELSE w
      w2 == open_output_file(w1, FALSE, ok)
      opened == \E i \in DOMAIN w2.log : w2.log[i].op = "open"
  IN IF opened THEN [w2 EXCEPT !.record_data = TRUE] ELSE w2

\* what Poll::close does with the output file
PollCloseFile(w) == IF SinkIsOpen(w.of) THEN close_output_file(w, FALSE) ELSE w

InitFile ==
  /\ InitPollFlags /\ InitNoFifo
  /\ pcC = "idle" /\ pcR = "idle"
  /\ cmdLocal = {} /\ runLocal = <<>>
  /\ cmdsLeft = MaxCalls /\ tick = <<>>
  /\ acq_running = FALSE
  /\ record_data \in BOOLEAN
  /\ shm_mode = FALSE
  /\ next_run_num = 1
  /\ mca_args = NoArgs
  /\ \/ /\ output_file = ClosedFile
        /\ disk = <<>>
     \/ /\ output_file = [open |-> TRUE, id |-> <<1, 0>>]
        /\ \E s \in StartSizes : disk = (<<1, 0>> :> [base |-> s, writes |-> <<>>])
  /\ file_open = output_file.open
  /\ sinkLog = <<>> /\ sinkData = <<>> /\ netOut = <<>>
  /\ fifoData = <<>> /\ dataWords = 0 /\ drain = NoDrain

\* one call: w is what it leaves
FileCall(w) ==
  /\ cmdsLeft > 0
  /\ cmdsLeft' = cmdsLeft - 1
  /\ PutWorld(w)
  /\ cmdLocal' = cmdLocal \cup { [op |-> w.log[i].op, cont |-> w.log[i].cont] : i \in DOMAIN w.log }
  /\ UNCHANGED <<kill_all, start_acq, stop_acq, do_reboot, force_spill, acq_running,
                 run_ctrl_exit, had_error, do_MCA_run, shm_mode, is_quiet, debug_mode>>
  /\ UNCHANGED <<mca_args, fifoVars, bufVars, pcC, pcR, runLocal, tick>>

CallOpen(continueRun, ok) ==
  /\ ~ok => ~SinkIsOpen(output_file)
  /\ FileCall(open_output_file(World, continueRun, ok))

CallClose(continueRun) ==
  /\ pcC = "idle"
  /\ FileCall(close_output_file(World, continueRun))

CallWrite(nWords, ok1, ok2) ==
  /\ ok1 \in FirstOpenOutcomes(TRUE)
  /\ ok2 \in SecondOpenOutcomes(TRUE, nWords)
  /\ FileCall(write_data(World, [i \in 1 .. nWords |-> SpillWord(i)], nWords, ok1, ok2))

CallStartRun(ok) ==
  /\ pcC = "idle"
  /\ FileCall(StartRunFile(World, ok))

CallPollClose ==
  /\ pcC = "idle"
  /\ FileCall(PollCloseFile(World))

NextFile ==
  \/ \E continueRun \in BOOLEAN, ok \in BOOLEAN : CallOpen(continueRun, ok)
  \/ \E continueRun \in BOOLEAN : CallClose(continueRun)
  \/ \E nWords \in 1 .. 2, ok1 \in BOOLEAN, ok2 \in BOOLEAN :
       CallWrite(nWords, ok1, ok2)
  \/ \E ok \in BOOLEAN : CallStartRun(ok)
  \/ CallPollClose

SpecFile == InitFile /\ [][NextFile]_vars

\* the calls so far: an open that failed, an open that was refused because a file
\* was open, and a write that closed the full file and could not open the next
C40_Witness ==
  /\ [op |-> "openfail", cont |-> FALSE] \in cmdLocal
  /\ [op |-> "refused", cont |-> FALSE] \in cmdLocal
  /\ [op |-> "close", cont |-> TRUE] \in cmdLocal
  /\ [op |-> "openfail", cont |-> TRUE] \in cmdLocal
  /\ [op |-> "write", cont |-> FALSE] \in cmdLocal

(***************************************************************************)
(* SpecBrim: drains of a crate in the middle of a run: every module may    *)
(* hold the first words of an event in its partial-event buffer, left by   *)
(* the drain before, and its FIFO the rest of that event and whole events  *)
(* up to one word less than a full FIFO.                                   *)
(***************************************************************************)
\* the first event of a module in SpecBrim has MaxEventWords words, of which cut are
\* in the partial-event buffer; whole events of 2 words follow it in the FIFO
BrimPartial(m, cut) == SubSeq(EventWords(m, 0, MaxEventWords, TRUE), 1, cut)

BrimFifo(m, cut, n) ==
  SubSeq(EventWords(m, 0, MaxEventWords, TRUE), cut + 1, MaxEventWords)
    \o Flatten([k \in 1 .. n |-> EventWords(m, k, 2, TRUE)])

InitBrim ==
  /\ InitPollFlags
  /\ pcC = "idle" /\ pcR = "idle"
  /\ cmdLocal = <<>> /\ runLocal = NoPass
  /\ cmdsLeft = 0 /\ tick = <<>>
  /\ acq_running = TRUE
  /\ record_data = FALSE
  /\ shm_mode = FALSE
  /\ next_run_num = 1
  /\ mca_args = NoArgs
  /\ output_file = ClosedFile
  /\ disk = <<>>
  /\ file_open = FALSE
  /\ sinkLog = <<>> /\ sinkData = <<>> /\ netOut = <<>>
  /\ fifoData = [i \in 1 .. BufferSpan |-> -1]
  /\ dataWords = 0
  /\ drain = NoDrain
  /\ \E cut \in [Mods -> 0 .. (MaxEventWords - 1)], n \in [Mods -> 0 .. EXTERNAL_FIFO_LENGTH] :
       /\ \A m \in Mods : Len(BrimFifo(m, cut[m], n[m])) < EXTERNAL_FIFO_LENGTH
       /\ partialEvent = [m \in Mods |-> BrimPartial(m, cut[m])]
       /\ fifo = [m \in Mods |-> BrimFifo(m, cut[m], n[m])]
       /\ produced = [m \in Mods |-> n[m] + 1]

NextBrim ==
  \E nWords \in [Mods -> 0 .. EXTERNAL_FIFO_LENGTH], failMod \in Mods \cup {-1} :
    AcqTick(nWords, failMod)

SpecBrim == InitBrim /\ [][NextBrim]_vars

\* C39: in a drain every index of the spill buffer that is written (the two header
\* words of a segment, the words of the partial event put in front and the W[m] words
\* read from the FIFO) is below the (EXTERNAL_FIFO_LENGTH + 2) * N words of the
\* buffer, whatever depths below EXTERNAL_FIFO_LENGTH the modules have and whatever
\* partial events the drains before have left.
C39_WritesInsideBuffer ==
  drain.count > 0 => (~drain.overrun /\ drain.result # "crash")

(***************************************************************************)
(* SpecPoll: the threshold wait at the head of ReadFIFO, one polling cycle *)
(* a step, while the hardware writes events and the operator may enter     *)
(* stopacq.  runLocal holds the locals of the call: timeout, the loop      *)
(* counter; nWords, what CheckFIFOWords returned last; cycles, the cycles  *)
(* made; sawStop, whether stop_acq was true when the last cycle was made;  *)
(* readData, the decision taken after the loop.                            *)
(***************************************************************************)
InitPoll ==
  /\ InitPollFlags /\ InitNoFifo
  /\ pcC = "idle" /\ pcR = "poll"
  /\ cmdLocal = <<>>
  /\ runLocal = [timeout |-> 0, nWords |-> [m \in Mods |-> 0], cycles |-> 0,
                 sawStop |-> FALSE, readData |-> FALSE]
  /\ cmdsLeft = 0 /\ tick = <<>>
  /\ acq_running = TRUE
  /\ record_data = FALSE
  /\ shm_mode = FALSE
  /\ next_run_num = 1
  /\ mca_args = NoArgs
  /\ output_file = ClosedFile
  /\ disk = <<>>
  /\ file_open = FALSE
  /\ sinkLog = <<>> /\ sinkData = <<>> /\ netOut = <<>>
  /\ fifoData = [i \in 1 .. BufferSpan |-> -1]
  /\ dataWords = 0
  /\ drain = NoDrain

\* a wait that no depth ends
PollBreak_Never(nWords) == FALSE

\* if(*maxWords > threshWords){ break; }
PollBreak(nWords) == \E m \in Mods : nWords[m] > threshWords

\* one cycle of for (timeout = 0; timeout < POLL_TRIES; timeout++): the depth of every
\* module is read, and the loop is left if one is over the threshold or, after
\* timeout++, if the counter has reached POLL_TRIES
PollCycle ==
  /\ pcR = "poll"
  /\ runLocal.timeout < POLL_TRIES
  /\ LET nWords == [m \in Mods |-> Len(fifo[m])]
     IN /\ runLocal' = [runLocal EXCEPT
                          !.nWords = nWords,
                          !.cycles = @ + 1,
                          !.sawStop = stop_acq,
                          !.timeout = IF PollBreak(nWords) THEN @ ELSE @ + 1]
        /\ pcR' = IF PollBreak(nWords) \/ runLocal.timeout + 1 >= POLL_TRIES
                  THEN "poll_done" ELSE "poll"
  /\ UNCHANGED <<flagVars, optVars, fileVars, netOut, fifoVars, bufVars, pcC, cmdLocal,
                 cmdsLeft, tick>>

\* bool readData = (*maxWords > threshWords || stop_acq); if (readData || force_spill)
PollExit ==
  /\ pcR = "poll_done"
  /\ runLocal' = [runLocal EXCEPT !.readData = ReadData(runLocal.nWords, stop_acq)]
  /\ pcR' = IF ReadData(runLocal.nWords, stop_acq) \/ force_spill THEN "read" ELSE "return"
  /\ UNCHANGED <<flagVars, optVars, fileVars, netOut, fifoVars, bufVars, pcC, cmdLocal,
                 cmdsLeft, tick>>

NextPoll ==
  \/ \E m \in Mods, size \in EventSizes, slotOk \in BOOLEAN :
       (~slotOk => size = 2) /\ HwEvent(m, size, slotOk)
  \/ cmd_stop
  \/ PollCycle
  \/ PollExit

SpecPoll == InitPoll /\ [][NextPoll]_vars

\* a step of the threshold wait
PollStep == pcR = "poll" /\ runLocal' # runLocal

\* C34 as the specification has it: the wait makes at most POLL_TRIES cycles and is
\* over as soon as a module holds more than threshWords words or stop_acq is true: a
\* cycle that is made while stop_acq is true ends the wait.
C34_StopEndsWait ==
  [][ /\ runLocal'.cycles <= POLL_TRIES
      /\ (PollStep /\ (PollBreak(runLocal'.nWords) \/ stop_acq)) => pcR' = "poll_done" ]_vars

\* C34: the wait makes at most POLL_TRIES cycles and is over as soon as a module
\* holds more than threshWords words, and only then or after the last cycle: stop_acq
\* is not read during the wait; a cycle that is made while stop_acq is true and no
\* module is over the threshold leaves the wait running, and stop_acq is read once
\* the wait is over, where it makes the drain read the FIFOs.
C34_OnlyDepthEndsWait ==
  [][ /\ runLocal'.cycles <= POLL_TRIES
      /\ PollStep =>
           /\ runLocal'.cycles = runLocal.cycles + 1
           /\ runLocal'.nWords = [m \in Mods |-> Len(fifo[m])]
           /\ pcR' = "poll_done"
                <=> (PollBreak(runLocal'.nWords) \/ runLocal'.cycles = POLL_TRIES)
           /\ PollBreak(runLocal'.nWords) => runLocal'.timeout = runLocal.timeout
      /\ (pcR = "poll_done" /\ pcR' # pcR) =>
           /\ runLocal'.readData = (PollBreak(runLocal.nWords) \/ stop_acq)
           /\ stop_acq => pcR' = "read" ]_vars

\* a cycle was made while stop_acq was true, it was not the last one, and the wait
\* goes on
C34_Witness ==
  /\ pcR = "poll" /\ runLocal.sawStop /\ stop_acq
  /\ runLocal.cycles >= 2 /\ runLocal.cycles < POLL_TRIES - 1

(***************************************************************************)
(* SpecStraddle: one drain of module FIFOs of StraddleFifoLength words.    *)
(* Module 0 holds up to MaxWholeEvents whole events followed by one event   *)
(* of which only the first words have arrived; the other modules are empty. *)
(***************************************************************************)
WholeSizes == {10, 40, 50}

CutSizes == {20, 60}

MaxEventSize == CHOOSE s \in CutSizes : \A t \in CutSizes : t <= s

\* the spill buffer of a drain of FIFOs of StraddleFifoLength words
StraddleBuffer == [i \in 1 .. (StraddleFifoLength + 2) * NumCards |-> -1]

\* n events of size words each, then the first present words of one more event of
\* cut words
StraddleWords(n, size, cut, present) ==
  Flatten([k \in 1 .. n |-> EventWords(0, k - 1, size, TRUE)])
    \o SubSeq(EventWords(0, n, cut, TRUE), 1, present)

InitStraddle ==
  /\ InitPollFlags
  /\ pcC = "idle" /\ pcR = "idle"
  /\ cmdLocal = <<>> /\ runLocal = NoPass
  /\ cmdsLeft = 0 /\ tick = <<>>
  /\ acq_running = TRUE
  /\ record_data = FALSE
  /\ shm_mode = FALSE
  /\ next_run_num = 1
  /\ mca_args = NoArgs
  /\ output_file = ClosedFile
  /\ disk = <<>>
  /\ file_open = FALSE
  /\ sinkLog = <<>> /\ sinkData = <<>> /\ netOut = <<>>
  /\ fifoData = StraddleBuffer
  /\ dataWords = 0
  /\ drain = NoDrain
  /\ produced = [m \in Mods |-> 0]
  /\ partialEvent = [m \in Mods |-> <<>>]
  /\ \E n \in 0 .. MaxWholeEvents, size \in WholeSizes, cut \in CutSizes :
       \E present \in 1 .. cut :
         fifo = [m \in Mods |->
                   IF m = 0 THEN StraddleWords(n, size, cut, present) ELSE <<>>]

\* the tick of the run controller that drains the FIFOs: ReadFIFO over every word
\* the modules hold, then the handling of the stop an abort asks for
DrainStraddle ==
  /\ acq_running
  /\ drain.count = 0
  /\ LET nWords == [m \in Mods |-> Len(fifo[m])]
         st == ModuleLoop([DrainStart(fifoData, fifo, partialEvent, had_error, stop_acq)
                             EXCEPT !.fifoLength = StraddleFifoLength],
                          0, nWords, -1)
     IN /\ ReadData(nWords, stop_acq) \/ force_spill
        /\ runLocal' = PassLocals(nWords)
        /\ fifo' = st.fifo
        /\ partialEvent' = st.partialEvent
        /\ fifoData' = st.buf
        /\ dataWords' = st.dataWords
        /\ drain' = DrainRecord(st, nWords, FALSE)
        /\ IF st.result = "spill"
           THEN PutWorld(FlushSpill(World, st.buf, st.dataWords, record_data, shm_mode,
                                    TRUE, TRUE))
           ELSE PutWorld(World)
        /\ HandleStop(st.stop_acq, FALSE, st.had_error, FALSE, FALSE)
  /\ UNCHANGED <<kill_all, start_acq, do_reboot, run_ctrl_exit, do_MCA_run, shm_mode,
                 is_quiet, debug_mode, mca_args, produced, pcC, pcR, cmdLocal, cmdsLeft,
                 tick>>

NextStraddle == DrainStraddle

SpecStraddle == InitStraddle /\ [][NextStraddle]_vars

(***************************************************************************)
(* Spec: Poll::command_control and Poll::run_control as two threads.  A    *)
(* step is one read or one write of a flag the other thread writes; reads   *)
(* of acq_running, which only run_control writes, go with the step before.  *)
(* The FIFOs are not followed here: what a drain finds is an input.         *)
(***************************************************************************)
Flags ==
  [kill_all |-> kill_all, start_acq |-> start_acq, stop_acq |-> stop_acq,
   record_data |-> record_data, do_reboot |-> do_reboot, force_spill |-> force_spill,
   acq_running |-> acq_running, run_ctrl_exit |-> run_ctrl_exit, had_error |-> had_error,
   file_open |-> file_open, do_MCA_run |-> do_MCA_run, shm_mode |-> shm_mode,
   is_quiet |-> is_quiet, debug_mode |-> debug_mode]

SetFlags(f) ==
  /\ kill_all' = f.kill_all /\ start_acq' = f.start_acq /\ stop_acq' = f.stop_acq
  /\ record_data' = f.record_data /\ do_reboot' = f.do_reboot
  /\ force_spill' = f.force_spill /\ acq_running' = f.acq_running
  /\ run_ctrl_exit' = f.run_ctrl_exit /\ had_error' = f.had_error
  /\ file_open' = f.file_open /\ do_MCA_run' = f.do_MCA_run /\ shm_mode' = f.shm_mode
  /\ is_quiet' = f.is_quiet /\ debug_mode' = f.debug_mode

\* a step of run_control that goes to position pc with the flags f
RunStep(pc, f) ==
  /\ pcR' = pc
  /\ SetFlags(f)
  /\ UNCHANGED <<optVars, fileVars, netOut, fifoVars, bufVars, pcC, cmdLocal, cmdsLeft>>

\* what a tick of run_control has seen and done since the top of its loop, and what
\* run_control has done so far: listMode, the list-mode runs StartListModeRun has
\* started less those EndRun has ended; recRun, whether a run started with
\* record_data set is going on ("on") or has been ended ("over")
NewTick(kill, running) ==
  [kill |-> kill, running |-> running, did |-> {}, stopSet |-> FALSE,
   listMode |-> 0, recRun |-> "none"]

Did(what) == tick' = [tick EXCEPT !.did = @ \cup {what}]

\* a kill_all that leaves the loop whether acquisition is running or not
KillBranch_Unsafe(kill, running) == IF kill THEN "exit" ELSE "reboot"

\* a kill_all that never leaves the loop
KillBranch_NoBreak(kill, running) ==
  IF kill /\ running THEN "kill_stop" ELSE "reboot"

\* if (kill_all) { if (acq_running) stop_acq = true; else break; }
KillBranch(kill, running) ==
  IF kill THEN (IF running THEN "kill_stop" ELSE "exit") ELSE "reboot"

\* a reboot that does not wait for the end of the run
RebootBranch_Unsafe(reboot, running) == IF reboot THEN "boot" ELSE "mca"

\* if (do_reboot) { if (acq_running) stop_acq = true; else { Boot ... } }
RebootBranch(reboot, running) ==
  IF reboot THEN (IF running THEN "reboot_stop" ELSE "boot") ELSE "mca"

\* if (do_MCA_run) { if (acq_running) stop_acq = true; else { MCA run } }
McaBranch(mca, running) ==
  IF mca THEN (IF running THEN "mca_stop" ELSE "mca_open") ELSE "start"

\* a start that does not look at acq_running
StartBranch_Always(start, running) == IF start THEN "start_go" ELSE "start_else"

\* if (start_acq && !acq_running) ... else if (start_acq && acq_running) ...
StartBranch(start, running) == IF start /\ ~running THEN "start_go" ELSE "start_else"

StartElseBranch(start, running) == IF start /\ running THEN "start_clr" ELSE "acq"

\* if (stop_acq) { end of the run } after ReadFIFO()
StopBranch(stop) == IF stop THEN "end_stop" ELSE "status"

rc_top ==
  /\ pcR = "top"
  /\ tick' = [NewTick(kill_all, acq_running) EXCEPT !.listMode = tick.listMode,
                                                    !.recRun = tick.recRun]
  /\ runLocal' = <<>>
  /\ RunStep(KillBranch(kill_all, acq_running), Flags)

rc_kill_stop ==
  /\ pcR = "kill_stop"
  /\ tick' = [tick EXCEPT !.stopSet = TRUE]
  /\ UNCHANGED runLocal
  /\ RunStep("reboot", [Flags EXCEPT !.stop_acq = TRUE])

rc_reboot ==
  /\ pcR = "reboot"
  /\ UNCHANGED <<tick, runLocal>>
  /\ RunStep(RebootBranch(do_reboot, acq_running), Flags)

rc_reboot_stop ==
  /\ pcR = "reboot_stop"
  /\ UNCHANGED <<tick, runLocal>>
  /\ RunStep("mca", [Flags EXCEPT !.stop_acq = TRUE])

\* pif->Boot(PixieInterface::BootAll); printf("Press any key to continue...");
rc_boot ==
  /\ pcR = "boot"
  /\ Did("reboot")
  /\ UNCHANGED runLocal
  /\ RunStep("boot_key", Flags)

\* std::cin.get() returns; do_reboot = false;
rc_boot_key ==
  /\ pcR = "boot_key"
  /\ UNCHANGED <<tick, runLocal>>
  /\ RunStep("mca", [Flags EXCEPT !.do_reboot = FALSE])

rc_mca ==
  /\ pcR = "mca"
  /\ UNCHANGED <<tick, runLocal>>
  /\ RunStep(McaBranch(do_MCA_run, acq_running), Flags)

rc_mca_stop ==
  /\ pcR = "mca_stop"
  /\ UNCHANGED <<tick, runLocal>>
  /\ RunStep("start", [Flags EXCEPT !.stop_acq = TRUE])

\* the MCA object is made from mca_args; isOpen: mca && mca->IsOpen()
rc_mca_open(isOpen) ==
  /\ pcR = "mca_open"
  /\ Did("mca")
  /\ runLocal' = [totalTime |-> mca_args.totalTime, basename |-> mca_args.basename]
  /\ RunStep(IF isOpen THEN "mca_run" ELSE "mca_zero", Flags)

\* mca->Run(totalTime, &stop_acq) goes on until the time is up or stop_acq is set
rc_mca_run(elapsed) ==
  /\ pcR = "mca_run"
  /\ UNCHANGED <<tick, runLocal>>
  /\ RunStep(IF stop_acq \/ elapsed THEN "mca_zero" ELSE "mca_run", Flags)

\* an MCA pass that leaves the arguments as they are
rc_mca_zero_Kept ==
  /\ pcR = "mca_zero"
  /\ pcR' = "mca_clrstop"
  /\ UNCHANGED <<flagVars, optVars, fileVars, netOut, fifoVars, bufVars,
                 pcC, cmdLocal, cmdsLeft, tick, runLocal>>

\* mca_args.Zero();
rc_mca_zero ==
  /\ pcR = "mca_zero"
  /\ pcR' = "mca_clrstop"
  /\ mca_args' = NoArgs
  /\ UNCHANGED <<flagVars, next_run_num, fileVars, netOut, fifoVars, bufVars,
                 pcC, cmdLocal, cmdsLeft, tick, runLocal>>

rc_mca_clrstop ==
  /\ pcR = "mca_clrstop"
  /\ UNCHANGED <<tick, runLocal>>
  /\ RunStep("mca_clr", [Flags EXCEPT !.stop_acq = FALSE])

rc_mca_clr ==
  /\ pcR = "mca_clr"
  /\ UNCHANGED <<tick, runLocal>>
  /\ RunStep("start", [Flags EXCEPT !.do_MCA_run = FALSE])

rc_start ==
  /\ pcR = "start"
  /\ UNCHANGED <<tick, runLocal>>
  /\ RunStep(StartBranch(start_acq, acq_running), Flags)

\* pif->StartListModeRun(LIST_MODE_RUN, NEW_RUN) and what follows its result
rc_start_go(started) ==
  /\ pcR = "start_go"
  /\ tick' = [tick EXCEPT !.did = @ \cup {"start"},
                          !.listMode = IF started THEN @ + 1 ELSE @,
                          !.recRun = IF started THEN (IF record_data THEN "on" ELSE "none")
                                     ELSE @]
  /\ UNCHANGED runLocal
  /\ IF started
     THEN RunStep("start_clr", [Flags EXCEPT !.acq_running = TRUE])
     ELSE RunStep("start_err", [Flags EXCEPT !.acq_running = FALSE])

\* a failed start that asks for the reboot itself
rc_start_err_Reboot ==
  /\ pcR = "start_err"
  /\ UNCHANGED <<tick, runLocal>>
  /\ RunStep("start_clr", [Flags EXCEPT !.had_error = TRUE, !.do_reboot = TRUE])

rc_start_err ==
  /\ pcR = "start_err"
  /\ UNCHANGED <<tick, runLocal>>
  /\ RunStep("start_clr", [Flags EXCEPT !.had_error = TRUE])

rc_start_clr ==
  /\ pcR = "start_clr"
  /\ UNCHANGED <<tick, runLocal>>
  /\ RunStep("acq", [Flags EXCEPT !.start_acq = FALSE])

rc_start_else ==
  /\ pcR = "start_else"
  /\ UNCHANGED <<tick, runLocal>>
  /\ RunStep(StartElseBranch(start_acq, acq_running), Flags)

\* if (acq_running) { ReadFIFO(); ... }
rc_acq ==
  /\ pcR = "acq"
  /\ UNCHANGED <<tick, runLocal>>
  /\ RunStep(IF acq_running THEN "fifo_poll" ELSE "status", Flags)

\* the spill of a drain in Spec: every module's segment is empty
EmptySpill == Flatten([k \in 1 .. NumCards |-> <<2, k - 1>>])

\* ReadFIFO: the poll loop ends with the threshold passed or not (the threshold is
\* passed at most MaxDrains times); bool readData = (*maxWords > threshWords || stop_acq);
rc_fifo_poll(overThreshold) ==
  /\ pcR = "fifo_poll"
  /\ overThreshold => drain.count < MaxDrains
  /\ runLocal' = [readData |-> overThreshold \/ stop_acq]
  /\ UNCHANGED tick
  /\ RunStep("fifo_force", Flags)

\* if (readData || force_spill)
rc_fifo_force ==
  /\ pcR = "fifo_force"
  /\ UNCHANGED <<tick, runLocal>>
  /\ RunStep(IF runLocal.readData \/ force_spill THEN "fifo_clear" ELSE "stopchk", Flags)

\* force_spill = false;
rc_fifo_clear ==
  /\ pcR = "fifo_clear"
  /\ Did("drain")
  /\ UNCHANGED runLocal
  /\ RunStep("fifo_read", [Flags EXCEPT !.force_spill = FALSE])

\* where the loop over the modules leaves: at the write of the spill, or at the two
\* flags of an abort (had_error first for a full FIFO or a failed read, stop_acq
\* first for corrupted data)
ReadOutcomes == {"spill", "full", "readfail", "corrupt"}

rc_fifo_read(outcome) ==
  /\ pcR = "fifo_read"
  /\ pcR' = (IF outcome = "spill" THEN "fifo_write" ELSE "fifo_abort")
  /\ runLocal' = [readData |-> TRUE, outcome |-> outcome, flagsSet |-> 0]
  /\ drain' = [NoDrain EXCEPT !.count = drain.count + 1, !.result = outcome,
                              !.prev = drain.result]
  /\ fifoData' = EmptySpill
  /\ dataWords' = (IF outcome = "spill" THEN Len(EmptySpill) ELSE 0)
  /\ UNCHANGED <<flagVars, optVars, fileVars, netOut, fifoVars, tick,
                 pcC, cmdLocal, cmdsLeft>>

\* had_error = true; stop_acq = true; return false;  (corrupted data: the other order)
rc_fifo_abort ==
  /\ pcR = "fifo_abort"
  /\ UNCHANGED tick
  /\ runLocal' = [runLocal EXCEPT !.flagsSet = @ + 1]
  /\ LET errFirst == runLocal.outcome # "corrupt"
         setErr == (runLocal.flagsSet = 0) = errFirst
     IN RunStep(IF runLocal.flagsSet = 0 THEN "fifo_abort" ELSE "stopchk",
                IF setErr THEN [Flags EXCEPT !.had_error = TRUE]
                          ELSE [Flags EXCEPT !.stop_acq = TRUE])

\* if (record_data) write_data(fifoData, dataWords);
rc_fifo_write(ok1, ok2) ==
  /\ pcR = "fifo_write"
  /\ pcR' = "fifo_bcast"
  /\ ok1 \in FirstOpenOutcomes(record_data)
  /\ ok2 \in SecondOpenOutcomes(record_data, dataWords)
  /\ PutWorld(WriteIfRecording(World, fifoData, dataWords, record_data, ok1, ok2))
  /\ UNCHANGED <<kill_all, start_acq, stop_acq, do_reboot, force_spill, acq_running,
                 run_ctrl_exit, had_error, do_MCA_run, shm_mode, is_quiet, debug_mode>>
  /\ UNCHANGED <<mca_args, fifoVars, bufVars, tick, runLocal, pcC, cmdLocal, cmdsLeft>>

\* broadcast_data(fifoData, dataWords);
rc_fifo_bcast ==
  /\ pcR = "fifo_bcast"
  /\ pcR' = "stopchk"
  /\ netOut' = broadcast_data(fifoData, dataWords, shm_mode)
  /\ UNCHANGED <<flagVars, optVars, fileVars, fifoVars, bufVars, tick, runLocal,
                 pcC, cmdLocal, cmdsLeft>>

\* if (stop_acq) after ReadFIFO()
rc_stopchk ==
  /\ pcR = "stopchk"
  /\ UNCHANGED <<tick, runLocal>>
  /\ RunStep(StopBranch(stop_acq), Flags)

\* pif->EndRun(); stop_acq = false;
rc_end_stop ==
  /\ pcR = "end_stop"
  /\ tick' = [tick EXCEPT !.listMode = @ - 1]
  /\ UNCHANGED runLocal
  /\ RunStep("end_acq", [Flags EXCEPT !.stop_acq = FALSE])

\* an end of the run that closes the output file
rc_end_acq_Close ==
  /\ pcR = "end_acq"
  /\ pcR' = "end_busy"
  /\ tick' = [tick EXCEPT !.recRun = IF @ = "on" THEN "over" ELSE @]
  /\ PutWorld(close_output_file(World, FALSE))
  /\ acq_running' = FALSE
  /\ UNCHANGED <<kill_all, start_acq, stop_acq, do_reboot, force_spill, run_ctrl_exit,
                 had_error, do_MCA_run, shm_mode, is_quiet, debug_mode>>
  /\ UNCHANGED <<mca_args, fifoVars, bufVars, runLocal, pcC, cmdLocal, cmdsLeft>>

\* acq_running = false;
rc_end_acq ==
  /\ pcR = "end_acq"
  /\ tick' = [tick EXCEPT !.recRun = IF @ = "on" THEN "over" ELSE @]
  /\ UNCHANGED runLocal
  /\ RunStep("end_busy", [Flags EXCEPT !.acq_running = FALSE])

\* a module whose run has not ended: force_spill = true; sleep(1); ReadFIFO(), which
\* returns at once now that acq_running is false
rc_end_busy(busy) ==
  /\ pcR = "end_busy"
  /\ UNCHANGED <<tick, runLocal>>
  /\ RunStep("end_err", IF busy THEN [Flags EXCEPT !.force_spill = TRUE] ELSE Flags)

\* a module whose run status is still not 0: had_error = true;
rc_end_err(endErr) ==
  /\ pcR = "end_err"
  /\ UNCHANGED <<tick, runLocal>>
  /\ RunStep("status", IF endErr THEN [Flags EXCEPT !.had_error = TRUE] ELSE Flags)

\* the status line is built and shown; if (!acq_running && !do_MCA_run) sleep(1);
rc_status ==
  /\ pcR = "status"
  /\ UNCHANGED <<tick, runLocal>>
  /\ RunStep("top", Flags)

\* the loop is left without run_ctrl_exit being set
rc_exit_NoFlag ==
  /\ pcR = "exit"
  /\ UNCHANGED <<tick, runLocal>>
  /\ RunStep("done", Flags)

\* after the loop: run_ctrl_exit = true;
rc_exit ==
  /\ pcR = "exit"
  /\ UNCHANGED <<tick, runLocal>>
  /\ RunStep("done", [Flags EXCEPT !.run_ctrl_exit = TRUE])

\* the steps of run_control but the wait for a key after a reboot
run_control_steps ==
  \/ rc_top \/ rc_kill_stop \/ rc_reboot \/ rc_reboot_stop \/ rc_boot
  \/ rc_mca \/ rc_mca_stop
  \/ \E isOpen \in BOOLEAN : rc_mca_open(isOpen)
  \/ \E elapsed \in BOOLEAN : rc_mca_run(elapsed)
  \/ rc_mca_zero \/ rc_mca_clrstop \/ rc_mca_clr
  \/ rc_start
  \/ \E started \in BOOLEAN : rc_start_go(started)
  \/ rc_start_err \/ rc_start_clr \/ rc_start_else \/ rc_acq
  \/ \E overThreshold \in BOOLEAN : rc_fifo_poll(overThreshold)
  \/ rc_fifo_force \/ rc_fifo_clear
  \/ \E outcome \in ReadOutcomes : rc_fifo_read(outcome)
  \/ rc_fifo_abort
  \/ \E ok1 \in BOOLEAN, ok2 \in BOOLEAN : rc_fifo_write(ok1, ok2)
  \/ rc_fifo_bcast \/ rc_stopchk \/ rc_end_stop \/ rc_end_acq
  \/ \E busy \in BOOLEAN : rc_end_busy(busy)
  \/ \E endErr \in BOOLEAN : rc_end_err(endErr)
  \/ rc_status \/ rc_exit

run_control == run_control_steps \/ rc_boot_key

(***************************************************************************)
(* Poll::command_control                                                   *)
(***************************************************************************)
\* pmwrite and pmread take the branches of pwrite and pread
Commands == {"quit", "kill", "run", "startacq", "stop", "stopacq", "shm", "reboot",
             "close", "spill", "mca", "debug", "quiet", "dump", "pwrite", "pread",
             "adjust_offsets", "find_tau", "toggle", "toggle_bit"}

\* the commands that toggle a mode
ToggleCommands == {"shm", "debug", "quiet"}

\* the commands that read or write parameters of the modules: the ones that test
\* acq_running and do_MCA_run first, and the ones that do not
GuardedParamCommands == {"pwrite", "adjust_offsets", "find_tau", "toggle", "toggle_bit"}

UnguardedParamCommands == {"dump", "pread"}

\* where the branch of each command begins
FirstStep(cmd) ==
  CASE cmd = "quit"     -> "quit_mca"
    [] cmd = "kill"     -> "kill_acq"
    [] cmd = "run"      -> "StartRun_mca"
    [] cmd = "startacq" -> "StartAcq_mca"
    [] cmd = "stop"     -> "StopRun_acq"
    [] cmd = "stopacq"  -> "StopAcq_acq"
    [] cmd = "shm"      -> "shm_toggle"
    [] cmd = "reboot"   -> "reboot_mca"
    [] cmd = "close"    -> "close_mca"
    [] cmd = "spill"    -> "spill_mca"
    [] cmd = "mca"      -> "mca_mca"
    [] cmd = "debug"    -> "debug_toggle"
    [] cmd = "quiet"    -> "quiet_toggle"
    [] cmd \in GuardedParamCommands   -> "param_acq"
    [] cmd \in UnguardedParamCommands -> "param_io"

\* a step of command_control that goes to position pc with the flags f
CmdStep(pc, f) ==
  /\ pcC' = pc
  /\ SetFlags(f)
  /\ UNCHANGED <<optVars, fileVars, netOut, fifoVars, bufVars, pcR, runLocal, tick,
                 cmdsLeft, cmdLocal>>

\* a step of command_control that also records, in cmdLocal, what the handler of the
\* command has found or done so far
CmdStepLocal(pc, f, loc) ==
  /\ pcC' = pc
  /\ SetFlags(f)
  /\ cmdLocal' = loc
  /\ UNCHANGED <<optVars, fileVars, netOut, fifoVars, bufVars, pcR, runLocal, tick,
                 cmdsLeft>>

\* the modes the toggle commands change
Modes == [shm |-> shm_mode, debug |-> debug_mode, quiet |-> is_quiet]

\* cmd = poll_term_->GetCommand(); the command and its arguments are split.
\* cmdLocal holds the command, and of its handler: running and mca, what kill read of
\* acq_running and do_MCA_run; opened, what open_output_file returned to StartRun;
\* startSet and stopSet, whether it has set start_acq or stop_acq; duringMca, whether
\* mca->Run was going on when StopRun or StopAcq read acq_running; io, whether the
\* handler has read or written parameters of the modules, and whether acq_running or
\* do_MCA_run was true when it did; before, the modes when the command was entered;
\* prev and prevBefore, the command entered before this one if it was a toggle or a
\* close, and the modes when that one was entered
cc_get(cmd, secs) ==
  /\ pcC = "idle"
  /\ cmdsLeft > 0
  /\ cmdsLeft' = cmdsLeft - 1
  /\ secs # 0 => cmd = "mca"
  /\ cmdLocal' = [cmd |-> cmd, secs |-> secs, running |-> FALSE, mca |-> FALSE,
                  opened |-> "none", startSet |-> FALSE, stopSet |-> FALSE,
                  duringMca |-> FALSE, io |-> "none", before |-> Modes,
                  prev |-> IF cmdsLeft = MaxCmds THEN "none"
                           ELSE IF cmdLocal.cmd \in ToggleCommands \cup {"close"}
                           THEN cmdLocal.cmd ELSE "other",
                  prevBefore |-> IF cmdsLeft < MaxCmds /\ cmdLocal.cmd \in ToggleCommands
                                 THEN cmdLocal.before ELSE Modes]
  /\ pcC' = "clear"
  /\ UNCHANGED <<flagVars, optVars, fileVars, netOut, fifoVars, bufVars, pcR, runLocal, tick>>

\* had_error = false;
cc_clear ==
  /\ pcC = "clear"
  /\ CmdStep(FirstStep(cmdLocal.cmd), [Flags EXCEPT !.had_error = FALSE])

\* quit, exit
cc_quit_mca ==
  /\ pcC = "quit_mca"
  /\ CmdStep(IF do_MCA_run THEN "idle" ELSE "quit_acq", Flags)
\* a quit that does not look at acq_running
cc_quit_acq_Unchecked ==
  /\ pcC = "quit_acq"
  /\ CmdStep("quit_kill", Flags)

cc_quit_acq ==
  /\ pcC = "quit_acq"
  /\ CmdStep(IF acq_running THEN "idle" ELSE "quit_kill", Flags)
cc_quit_kill ==
  /\ pcC = "quit_kill"
  /\ CmdStep("wait", [Flags EXCEPT !.kill_all = TRUE])

\* kill: if (acq_running || do_MCA_run) stop_acq = true; kill_all = true;
cc_kill_acq ==
  /\ pcC = "kill_acq"
  /\ pcC' = (IF acq_running THEN "kill_stop" ELSE "kill_mca")
  /\ cmdLocal' = [cmdLocal EXCEPT !.running = acq_running]
  /\ UNCHANGED <<flagVars, optVars, fileVars, netOut, fifoVars, bufVars, pcR, runLocal,
                 tick, cmdsLeft>>

cc_kill_mca ==
  /\ pcC = "kill_mca"
  /\ pcC' = (IF do_MCA_run THEN "kill_stop" ELSE "kill_kill")
  /\ cmdLocal' = [cmdLocal EXCEPT !.mca = do_MCA_run]
  /\ UNCHANGED <<flagVars, optVars, fileVars, netOut, fifoVars, bufVars, pcR, runLocal,
                 tick, cmdsLeft>>

cc_kill_stop ==
  /\ pcC = "kill_stop"
  /\ CmdStep("kill_kill", [Flags EXCEPT !.stop_acq = TRUE])
cc_kill_kill ==
  /\ pcC = "kill_kill"
  /\ CmdStep("wait", [Flags EXCEPT !.kill_all = TRUE])

\* while (!run_ctrl_exit) sleep(1); break;
cc_wait ==
  /\ pcC = "wait"
  /\ CmdStep(IF run_ctrl_exit THEN "done" ELSE "wait", Flags)

\* Poll::StartRun
cc_StartRun_mca ==
  /\ pcC = "StartRun_mca"
  /\ CmdStep(IF do_MCA_run THEN "idle" ELSE "StartRun_acq", Flags)
cc_StartRun_acq ==
  /\ pcC = "StartRun_acq"
  /\ CmdStep(IF acq_running THEN "idle" ELSE "StartRun_file", Flags)

\* StartRun going on to StartAcq when the output file could not be opened
cc_StartRun_file_Continue(ok) ==
  /\ pcC = "StartRun_file"
  /\ LET w1 == IF SinkIsOpen(output_file) THEN close_output_file(World, FALSE) ELSE World
         w2 == open_output_file(w1, FALSE, ok)
     IN /\ PutWorld(w2)
        /\ pcC' = (IF w2.of.open THEN "StartRun_rec" ELSE "StartAcq_mca")
        /\ cmdLocal' = [cmdLocal EXCEPT !.opened = IF w2.of.open THEN "ok" ELSE "failed"]
  /\ UNCHANGED <<kill_all, start_acq, stop_acq, do_reboot, force_spill, acq_running,
                 run_ctrl_exit, had_error, do_MCA_run, shm_mode, is_quiet, debug_mode>>
  /\ UNCHANGED <<mca_args, fifoVars, bufVars, pcR, runLocal, tick, cmdsLeft>>

\* if (output_file.IsOpen()) close_output_file(); if (!open_output_file()) return false;
cc_StartRun_file(ok) ==
  /\ pcC = "StartRun_file"
  /\ LET w1 == IF SinkIsOpen(output_file) THEN close_output_file(World, FALSE) ELSE World
         w2 == open_output_file(w1, FALSE, ok)
     IN /\ PutWorld(w2)
        /\ pcC' = (IF w2.of.open THEN "StartRun_rec" ELSE "idle")
        /\ cmdLocal' = [cmdLocal EXCEPT !.opened = IF w2.of.open THEN "ok" ELSE "failed"]
  /\ UNCHANGED <<kill_all, start_acq, stop_acq, do_reboot, force_spill, acq_running,
                 run_ctrl_exit, had_error, do_MCA_run, shm_mode, is_quiet, debug_mode>>
  /\ UNCHANGED <<mca_args, fifoVars, bufVars, pcR, runLocal, tick, cmdsLeft>>

cc_StartRun_rec ==
  /\ pcC = "StartRun_rec"
  /\ CmdStep("StartAcq_mca", [Flags EXCEPT !.record_data = TRUE])

\* Poll::StartAcq
cc_StartAcq_mca ==
  /\ pcC = "StartAcq_mca"
  /\ CmdStep(IF do_MCA_run THEN "idle" ELSE "StartAcq_acq", Flags)
cc_StartAcq_acq ==
  /\ pcC = "StartAcq_acq"
  /\ CmdStep(IF acq_running THEN "idle" ELSE "StartAcq_set", Flags)
cc_StartAcq_set ==
  /\ pcC = "StartAcq_set"
  /\ CmdStepLocal("idle", [Flags EXCEPT !.start_acq = TRUE],
                  [cmdLocal EXCEPT !.startSet = TRUE])

\* what follows the return of StopAcq: in StopRun, record_data = false
AfterStopAcq(cmd) == IF cmd = "stop" THEN "StopRun_rec" ELSE "idle"

\* Poll::StopRun
cc_StopRun_acq ==
  /\ pcC = "StopRun_acq"
  /\ CmdStepLocal(IF acq_running THEN "StopAcq_acq" ELSE "idle", Flags,
                  [cmdLocal EXCEPT !.duringMca = (pcR = "mca_run")])
cc_StopRun_rec ==
  /\ pcC = "StopRun_rec"
  /\ CmdStep("idle", [Flags EXCEPT !.record_data = FALSE])

\* Poll::StopAcq
cc_StopAcq_acq ==
  /\ pcC = "StopAcq_acq"
  /\ CmdStepLocal(IF acq_running THEN "StopAcq_set" ELSE AfterStopAcq(cmdLocal.cmd), Flags,
                  [cmdLocal EXCEPT !.duringMca = (pcR = "mca_run")])

\* a stop that ends the acquisition itself
cc_StopAcq_set_Direct ==
  /\ pcC = "StopAcq_set"
  /\ CmdStepLocal(AfterStopAcq(cmdLocal.cmd),
                  [Flags EXCEPT !.stop_acq = TRUE, !.acq_running = FALSE],
                  [cmdLocal EXCEPT !.stopSet = TRUE])

cc_StopAcq_set ==
  /\ pcC = "StopAcq_set"
  /\ CmdStepLocal(AfterStopAcq(cmdLocal.cmd), [Flags EXCEPT !.stop_acq = TRUE],
                  [cmdLocal EXCEPT !.stopSet = TRUE])

\* a shm command that turns the shared-memory mode on
cc_shm_toggle_On ==
  /\ pcC = "shm_toggle"
  /\ CmdStep("idle", [Flags EXCEPT !.shm_mode = TRUE])

\* acq, shm: the shared-memory mode is toggled
cc_shm_toggle ==
  /\ pcC = "shm_toggle"
  /\ CmdStep("idle", [Flags EXCEPT !.shm_mode = ~shm_mode])

\* debug: debug_mode is toggled (and handed to the output file)
cc_debug_toggle ==
  /\ pcC = "debug_toggle"
  /\ CmdStep("idle", [Flags EXCEPT !.debug_mode = ~debug_mode])

\* quiet: is_quiet is toggled
cc_quiet_toggle ==
  /\ pcC = "quiet_toggle"
  /\ CmdStep("idle", [Flags EXCEPT !.is_quiet = ~is_quiet])

\* pwrite, pmwrite, adjust_offsets, find_tau, toggle, toggle_bit:
\* if (acq_running || do_MCA_run) { warning; continue; }
cc_param_acq ==
  /\ pcC = "param_acq"
  /\ CmdStep(IF acq_running THEN "idle" ELSE "param_mca", Flags)

cc_param_mca ==
  /\ pcC = "param_mca"
  /\ CmdStep(IF do_MCA_run THEN "idle" ELSE "param_io", Flags)

\* the parameter is read or written through the interface of the modules; dump,
\* pread and pmread get here without a test of acq_running or do_MCA_run
cc_param_io ==
  /\ pcC = "param_io"
  /\ CmdStepLocal("idle", Flags,
                  [cmdLocal EXCEPT !.io = IF acq_running \/ do_MCA_run THEN "busy"
                                          ELSE "quiet"])

\* reboot
cc_reboot_mca ==
  /\ pcC = "reboot_mca"
  /\ CmdStep(IF do_MCA_run THEN "idle" ELSE "reboot_acq", Flags)
cc_reboot_acq ==
  /\ pcC = "reboot_acq"
  /\ CmdStep(IF acq_running THEN "idle" ELSE "reboot_mca2", Flags)
cc_reboot_mca2 ==
  /\ pcC = "reboot_mca2"
  /\ CmdStep(IF do_MCA_run THEN "idle" ELSE "reboot_set", Flags)
cc_reboot_set ==
  /\ pcC = "reboot_set"
  /\ CmdStep("reboot_pause", [Flags EXCEPT !.do_reboot = TRUE])

\* poll_term_->pause(do_reboot): the terminal takes no input until do_reboot is false
cc_reboot_pause ==
  /\ pcC = "reboot_pause"
  /\ CmdStep(IF do_reboot THEN "reboot_pause" ELSE "idle", Flags)

\* clo, close
cc_close_mca ==
  /\ pcC = "close_mca"
  /\ CmdStep(IF do_MCA_run THEN "idle" ELSE "close_acq", Flags)
cc_close_acq ==
  /\ pcC = "close_acq"
  /\ CmdStep(IF acq_running THEN "close_rec" ELSE "close_file", Flags)
cc_close_rec ==
  /\ pcC = "close_rec"
  /\ CmdStep(IF record_data THEN "idle" ELSE "close_file", Flags)

cc_close_file ==
  /\ pcC = "close_file"
  /\ pcC' = "idle"
  /\ PutWorld(close_output_file(World, FALSE))
  /\ UNCHANGED <<kill_all, start_acq, stop_acq, do_reboot, force_spill, acq_running,
                 run_ctrl_exit, had_error, do_MCA_run, shm_mode, is_quiet, debug_mode>>
  /\ UNCHANGED <<mca_args, fifoVars, bufVars, pcR, runLocal, tick, cmdsLeft, cmdLocal>>

\* hup, spill
cc_spill_mca ==
  /\ pcC = "spill_mca"
  /\ CmdStep(IF do_MCA_run THEN "idle" ELSE "spill_acq", Flags)
cc_spill_acq ==
  /\ pcC = "spill_acq"
  /\ CmdStep(IF acq_running THEN "spill_set" ELSE "idle", Flags)
cc_spill_set ==
  /\ pcC = "spill_set"
  /\ CmdStep("idle", [Flags EXCEPT !.force_spill = TRUE])

\* mca
cc_mca_mca ==
  /\ pcC = "mca_mca"
  /\ CmdStep(IF do_MCA_run THEN "idle" ELSE "mca_acq", Flags)
cc_mca_acq ==
  /\ pcC = "mca_acq"
  /\ CmdStep(IF acq_running THEN "idle" ELSE "mca_args", Flags)

\* the arguments are put into mca_args; a total time of 0 becomes 10 seconds
McaTotalTime(current, secs) ==
  LET t == IF secs # 0 THEN secs ELSE current
  IN IF t = 0 THEN 10 ELSE t

cc_mca_args ==
  /\ pcC = "mca_args"
  /\ pcC' = "mca_set"
  /\ mca_args' = [mca_args EXCEPT !.totalTime = McaTotalTime(@, cmdLocal.secs)]
  /\ UNCHANGED <<flagVars, next_run_num, fileVars, netOut, fifoVars, bufVars, pcR,
                 runLocal, tick, cmdsLeft, cmdLocal>>

cc_mca_set ==
  /\ pcC = "mca_set"
  /\ CmdStep("idle", [Flags EXCEPT !.do_MCA_run = TRUE])

command_control ==
  \/ \E cmd \in Commands, secs \in {0, 5} : cc_get(cmd, secs)
  \/ cc_clear
  \/ cc_quit_mca \/ cc_quit_acq \/ cc_quit_kill
  \/ cc_kill_acq \/ cc_kill_mca \/ cc_kill_stop \/ cc_kill_kill
  \/ cc_wait
  \/ cc_StartRun_mca \/ cc_StartRun_acq
  \/ \E ok \in BOOLEAN : cc_StartRun_file(ok)
  \/ cc_StartRun_rec
  \/ cc_StartAcq_mca \/ cc_StartAcq_acq \/ cc_StartAcq_set
  \/ cc_StopRun_acq \/ cc_StopRun_rec \/ cc_StopAcq_acq \/ cc_StopAcq_set
  \/ cc_shm_toggle \/ cc_debug_toggle \/ cc_quiet_toggle
  \/ cc_param_acq \/ cc_param_mca \/ cc_param_io
  \/ cc_reboot_mca \/ cc_reboot_acq \/ cc_reboot_mca2 \/ cc_reboot_set \/ cc_reboot_pause
  \/ cc_close_mca \/ cc_close_acq \/ cc_close_rec \/ cc_close_file
  \/ cc_spill_mca \/ cc_spill_acq \/ cc_spill_set
  \/ cc_mca_mca \/ cc_mca_acq \/ cc_mca_args \/ cc_mca_set

(***************************************************************************)
(* The program after Poll::Poll() and initialize(), with the two threads    *)
(* at the top of their loops                                                *)
(***************************************************************************)
Init ==
  /\ InitPollFlags /\ InitNoFifo
  /\ acq_running = FALSE
  /\ record_data = FALSE
  /\ shm_mode = FALSE
  /\ file_open = FALSE
  /\ next_run_num = 1
  /\ mca_args = NoArgs
  /\ output_file = ClosedFile
  /\ disk = <<>>
  /\ sinkLog = <<>> /\ sinkData = <<>> /\ netOut = <<>>
  /\ fifoData = <<>> /\ dataWords = 0 /\ drain = NoDrain
  /\ pcC = "idle" /\ pcR = "top"
  /\ cmdLocal = <<>> /\ runLocal = <<>>
  /\ cmdsLeft = MaxCmds
  /\ tick = NewTick(FALSE, FALSE)

\* client->Close()
SocketClose == [kind |-> "close", text |-> "", len |-> 0, words |-> <<>>]

\* Poll::close(), called when command_control has returned: $KILL_SOCKET is sent,
\* the socket is closed, and then the output file is closed if it is open
Poll_close ==
  /\ pcC = "done"
  /\ pcC' = "close_pif"
  /\ LET w == [World EXCEPT !.net = <<CtlMsg("$KILL_SOCKET", 13), SocketClose>>]
     IN PutWorld(IF SinkIsOpen(output_file) THEN close_output_file(w, FALSE) ELSE w)
  /\ UNCHANGED <<kill_all, start_acq, stop_acq, do_reboot, force_spill, acq_running,
                 run_ctrl_exit, had_error, do_MCA_run, shm_mode, is_quiet, debug_mode>>
  /\ UNCHANGED <<mca_args, fifoVars, bufVars, pcR, runLocal, tick, cmdsLeft, cmdLocal>>

\* delete pif; init = false;
Poll_close_pif ==
  /\ pcC = "close_pif"
  /\ pcC' = "closed"
  /\ UNCHANGED <<flagVars, optVars, fileVars, netOut, fifoVars, bufVars, pcR, runLocal,
                 tick, cmdsLeft, cmdLocal>>

Next == command_control \/ run_control \/ Poll_close \/ Poll_close_pif

Spec == Init /\ [][Next]_vars

(***************************************************************************)
(* SpecRunning: the program once a startacq has been served: a list-mode   *)
(* run is going on, no file is open, and the operator enters MaxCmds more  *)
(* command lines.                                                          *)
(***************************************************************************)
InitRunning ==
  /\ InitPollFlags /\ InitNoFifo
  /\ acq_running = TRUE
  /\ record_data = FALSE
  /\ shm_mode = FALSE
  /\ file_open = FALSE
  /\ next_run_num = 1
  /\ mca_args = NoArgs
  /\ output_file = ClosedFile
  /\ disk = <<>>
  /\ sinkLog = <<>> /\ sinkData = <<>> /\ netOut = <<>>
  /\ fifoData = <<>> /\ dataWords = 0 /\ drain = NoDrain
  /\ pcC = "idle" /\ pcR = "top"
  /\ cmdLocal = <<>> /\ runLocal = <<>>
  /\ cmdsLeft = MaxCmds
  /\ tick = [NewTick(FALSE, FALSE) EXCEPT !.listMode = 1]

SpecRunning == InitRunning /\ [][Next]_vars

\* the run controller is scheduled and the calls it makes return (the wait for a key
\* after a reboot is the operator's); the dispatcher's sleep(1) returns
SpecFair ==
  /\ Spec
  /\ WF_vars(run_control_steps)
  /\ WF_vars(cc_wait)

(***************************************************************************)
(* Claims about the two threads (Spec, SpecFair)                           *)
(***************************************************************************)
\* C8: in every state of the two threads, interleaved at single flag reads and
\* writes, acq_running and do_MCA_run are not both true.
C8_AcqExcludesMca == ~(acq_running /\ do_MCA_run)

\* C9: a tick of the run controller that begins with kill_all set and acq_running
\* false leaves the loop in that tick, having made no reboot, MCA run, list-mode
\* start or drain, and run_ctrl_exit is set once the loop is left; a tick that
\* begins with kill_all set and acq_running true sets stop_acq and does not leave
\* the loop.
C9_KillTick ==
  /\ (tick.kill /\ ~tick.running) =>
       /\ pcR \in {"exit", "done"}
       /\ tick.did = {}
  /\ pcR = "done" <=> run_ctrl_exit
  /\ pcR \in {"exit", "done"} => (tick.kill /\ ~tick.running)
  /\ (tick.kill /\ tick.running) =>
       /\ pcR \notin {"exit", "done"}
       /\ pcR # "kill_stop" => tick.stopSet
       /\ pcR = "reboot" => stop_acq

\* the run controller has left its loop on a kill_all it met while idle
C9_Witness ==
  /\ pcR = "done" /\ run_ctrl_exit
  /\ tick.kill /\ ~tick.running
  /\ kill_all

\* C10: once the dispatcher has taken quit, exit or kill and waits for run_ctrl_exit,
\* then, the run controller being scheduled and its calls returning, run_ctrl_exit
\* is set in the end and the dispatcher's loop ends, whether a start was pending,
\* acquisition was running or an MCA run was pending or going on.
C10_ShutdownCompletes == (pcC = "wait") ~> (pcC = "done" /\ run_ctrl_exit)

\* the dispatcher's loop has ended after a kill given while acquisition was running
C10_Witness ==
  /\ pcC = "done" /\ run_ctrl_exit
  /\ cmdLocal.cmd = "kill" /\ cmdLocal.running

\* C11: every list-mode run the run controller has started with success is ended by
\* one EndRun before the next StartListModeRun and before run_ctrl_exit is set (at
\* most one run is open, a start is made only with none open, and none is open once
\* the loop is left); the loop is never left while acq_running is true.
C11_ListModePaired ==
  /\ tick.listMode \in {0, 1}
  /\ tick.listMode = 1 => acq_running
  /\ acq_running => (tick.listMode = 1 \/ pcR = "end_acq")
  /\ pcR = "start_go" => tick.listMode = 0
  /\ pcR \in {"exit", "done"} => (~acq_running /\ tick.listMode = 0)
  /\ run_ctrl_exit => (~acq_running /\ tick.listMode = 0)

\* the run controller has left its loop after a recording run was started and ended
C11_Witness ==
  /\ run_ctrl_exit /\ pcR = "done"
  /\ tick.recRun = "over"
  /\ tick.listMode = 0 /\ ~acq_running

\* the run controller has handled the stop of a run started with record_data set
RecordingOver == tick.recRun = "over" /\ pcR \notin {"end_acq", "end_busy", "end_err"}

\* C16 as stated: once the acquisition of a recording run has been stopped and
\* record_data is false, the output file is closed.
C16_FileClosedAfterRun ==
  (RecordingOver /\ ~acq_running /\ ~record_data) => ~output_file.open

\* C16 amended: the end of a recording run closes no file.  An open output file is
\* closed, and file_open cleared, only by the dispatcher in the handlers of close and
\* of run (StartRun closes an open file before it opens the next), by write_data
\* when it rotates the file at the ceiling and by Poll::close at shutdown; no step of StopRun, StopAcq or kill and no
\* step of the run controller's stop handling does it, so the file of a run is still
\* open when the run has been stopped.
C16_FileStaysOpen ==
  [][((output_file.open /\ ~output_file'.open) \/ (file_open /\ ~file_open')) =>
       \/ pcC' # pcC /\ pcC \in {"StartRun_file", "close_file", "done"}
       \/ pcC' = pcC /\ pcR = "fifo_write" /\ record_data]_vars

\* the operator's stop has ended a recording run and cleared record_data, and the
\* file of the run is still open
C16_Witness ==
  /\ RecordingOver /\ pcR = "top" /\ pcC = "idle"
  /\ cmdLocal.cmd = "stop" /\ cmdLocal.stopSet
  /\ ~acq_running /\ ~record_data
  /\ output_file.open /\ file_open

\* the handler of a run command has had open_output_file return false
RunOpenFailed == cmdsLeft < MaxCmds /\ cmdLocal.cmd = "run" /\ cmdLocal.opened = "failed"

\* C17 as stated: when the run command fails to open the output file, record_data
\* is cleared and, by the time the handler returns, start_acq has been set.
C17_StartHonoured ==
  (RunOpenFailed /\ pcC = "idle") => (~record_data /\ cmdLocal.startSet)

\* C17 amended: when the run command fails to open the output file, record_data is
\* cleared and StartRun returns at once: the handler does not call StartAcq, does
\* not set start_acq, and no file is open.
C17_FailedOpenNoStart ==
  RunOpenFailed =>
    /\ pcC = "idle"
    /\ ~record_data
    /\ ~cmdLocal.startSet
    /\ ~output_file.open /\ ~file_open

\* a run command has failed to open its file and nothing has been started
C17_Witness ==
  /\ RunOpenFailed /\ pcC = "idle"
  /\ sinkLog # <<>> /\ sinkLog[Len(sinkLog)].op = "openfail"
  /\ ~start_acq /\ ~acq_running /\ ~record_data
  /\ tick.listMode = 0

\* a step of the run controller, a step of the dispatcher
RunControllerStep == pcC' = pcC
DispatcherStep == pcC' # pcC /\ pcC \notin {"done", "close_pif"}

\* a step of Poll::close, made when both threads have ended
ShutdownStep == pcC' # pcC /\ pcC \in {"done", "close_pif"}

\* C18 as stated: no step of the run controller sets any of start_acq, stop_acq,
\* force_spill, do_reboot, do_MCA_run, record_data, shm_mode, is_quiet, debug_mode.
C18_RunControllerOnlyClears ==
  [][RunControllerStep =>
       /\ start_acq' => start_acq
       /\ stop_acq' => stop_acq
       /\ force_spill' => force_spill
       /\ do_reboot' => do_reboot
       /\ do_MCA_run' => do_MCA_run
       /\ record_data' => record_data
       /\ shm_mode' => shm_mode
       /\ is_quiet' => is_quiet
       /\ debug_mode' => debug_mode]_vars

\* C18 amended: no step of the run controller sets start_acq, do_reboot, do_MCA_run,
\* record_data, shm_mode, is_quiet or debug_mode; it does set stop_acq, in the
\* safety catches of kill_all, do_reboot and do_MCA_run and when a drain aborts,
\* and force_spill, when a module is still busy after EndRun.  No step of the
\* dispatcher clears start_acq, stop_acq, force_spill, do_reboot or do_MCA_run.
C18_RunControllerSetsStopAndSpill ==
  [][/\ RunControllerStep =>
          /\ start_acq' => start_acq
          /\ do_reboot' => do_reboot
          /\ do_MCA_run' => do_MCA_run
          /\ record_data' => record_data
          /\ shm_mode' => shm_mode
          /\ is_quiet' => is_quiet
          /\ debug_mode' => debug_mode
          /\ (stop_acq' /\ ~stop_acq) =>
               pcR \in {"kill_stop", "reboot_stop", "mca_stop", "fifo_abort"}
          /\ (force_spill' /\ ~force_spill) => pcR = "end_busy"
     /\ DispatcherStep =>
          /\ start_acq => start_acq'
          /\ stop_acq => stop_acq'
          /\ force_spill => force_spill'
          /\ do_reboot => do_reboot'
          /\ do_MCA_run => do_MCA_run']_vars

\* force_spill is set though the operator entered no spill command: the run
\* controller set it for a module still busy after the stop
C18_Witness ==
  /\ force_spill /\ ~acq_running
  /\ pcR = "end_err"
  /\ cmdsLeft = 0 /\ cmdLocal.cmd = "stopacq" /\ cmdLocal.stopSet

\* C19 as stated: no step of the dispatcher changes acq_running, file_open,
\* had_error or run_ctrl_exit.
C19_DispatcherWritesNone ==
  [][DispatcherStep =>
       /\ acq_running' = acq_running
       /\ file_open' = file_open
       /\ had_error' = had_error
       /\ run_ctrl_exit' = run_ctrl_exit]_vars

\* C19 amended: no step of the dispatcher changes acq_running or run_ctrl_exit.
\* The dispatcher clears had_error when a command line is entered and never sets
\* it; it changes file_open in the handlers of run (StartRun closes an open file
\* and opens the next) and close.
C19_DispatcherWritesTwo ==
  [][DispatcherStep =>
       /\ acq_running' = acq_running
       /\ run_ctrl_exit' = run_ctrl_exit
       /\ had_error' # had_error => (pcC = "clear" /\ ~had_error')
       /\ file_open' # file_open => pcC \in {"StartRun_file", "close_file"}]_vars

\* the handler of run has set file_open before any acquisition was started
C19_Witness ==
  /\ file_open /\ output_file.open
  /\ pcC = "StartRun_rec" /\ cmdLocal.cmd = "run" /\ cmdsLeft = MaxCmds - 1
  /\ tick.listMode = 0 /\ ~acq_running

\* the positions at which the dispatcher is about to write mca_args or has written
\* it and not yet set do_MCA_run; the positions of the run controller from the first
\* read of mca_args to its reset; the positions between the reset and the clearing
\* of do_MCA_run
McaWriting == {"mca_args", "mca_set"}
McaReading == {"mca_open", "mca_run", "mca_zero"}
McaZeroed == {"mca_clrstop", "mca_clr"}

\* C21: the dispatcher writes mca_args only while do_MCA_run is false, starting from
\* the zero value, and sets do_MCA_run when the arguments are complete; the run
\* controller reads mca_args only while do_MCA_run is true and resets it to the zero
\* value before it clears do_MCA_run; the two threads are never both at an access
\* of mca_args, and mca_args is changed by no other step.
C21_McaArgsHandOver ==
  [][/\ (pcC \in McaWriting)' => (~do_MCA_run' /\ pcR' \notin McaReading)
     /\ (pcC = "mca_args")' => mca_args' = NoArgs
     /\ (pcC = "mca_set")' => mca_args'.totalTime > 0
     /\ (pcR \in McaReading \cup McaZeroed)' => do_MCA_run'
     /\ (pcR \in McaZeroed)' => mca_args' = NoArgs
     /\ (~do_MCA_run' /\ pcC' # "mca_set") => mca_args' = NoArgs
     /\ mca_args' # mca_args =>
          \/ DispatcherStep /\ pcC = "mca_args" /\ ~do_MCA_run
          \/ RunControllerStep /\ pcR = "mca_zero" /\ do_MCA_run
     /\ (do_MCA_run' /\ ~do_MCA_run) => (DispatcherStep /\ pcC = "mca_set")
     /\ (do_MCA_run /\ ~do_MCA_run') => (RunControllerStep /\ pcR = "mca_clr")]_vars

\* the run controller has made an MCA pass of 5 seconds from the arguments of the
\* command and reset them, and is about to clear do_MCA_run
C21_Witness ==
  /\ pcR = "mca_clr"
  /\ runLocal.totalTime = 5
  /\ mca_args = NoArgs
  /\ do_MCA_run

\* a step of the handler of quit (or exit) before it sets kill_all
QuitStep ==
  /\ DispatcherStep
  /\ pcC \in {"clear", "quit_mca", "quit_acq"}
  /\ cmdLocal.cmd = "quit"

\* C22 as stated: no step the handler of quit makes while acq_running is true
\* changes a flag, had_error included, and the handler leaves kill_all false.
C22_QuitChangesNoFlag ==
  [][(QuitStep /\ acq_running) =>
       /\ Flags' = Flags
       /\ pcC = "quit_acq" => pcC' = "idle"]_vars

\* C22 amended: a quit entered while acq_running is true clears had_error, as every
\* command line does, and changes no other flag: the handler reads acq_running,
\* prints its warning and returns with kill_all false.
C22_QuitClearsHadError ==
  [][(QuitStep /\ acq_running) =>
       /\ Flags' = [Flags EXCEPT !.had_error = IF pcC = "clear" THEN FALSE ELSE @]
       /\ pcC = "quit_acq" => (pcC' = "idle" /\ ~kill_all')]_vars

\* quit was entered while the acquisition was running and has been refused
C22_Witness ==
  /\ pcC = "idle" /\ cmdsLeft = 0
  /\ cmdLocal.cmd = "quit"
  /\ acq_running /\ ~do_MCA_run
  /\ ~kill_all

\* C23: the handler of a parameter command (pread, pmread, pwrite, pmwrite, dump,
\* adjust_offsets, find_tau, toggle, toggle_bit) makes no parameter read or write
\* through the interface of the modules while acq_running or do_MCA_run is true.
C23_NoParamAccessWhileRunning ==
  cmdsLeft < MaxCmds =>
    (cmdLocal.cmd \in GuardedParamCommands \cup UnguardedParamCommands =>
       cmdLocal.io # "busy")

\* the calls made on the network client at shutdown, in order
ShutdownCalls == IF pcC \in {"close_pif", "closed"} THEN netOut ELSE <<>>

\* C26: at shutdown the output file is closed, with its $CLOSE_FILE message, before
\* $KILL_SOCKET is sent; $KILL_SOCKET is sent before the socket is closed; nothing
\* is sent once the socket is closed; the interface of the modules is released
\* last, when the output file is closed.
C26_ShutdownOrder ==
  /\ \A i, j \in 1 .. Len(ShutdownCalls) :
       /\ (ShutdownCalls[i].text = "$CLOSE_FILE" /\ ShutdownCalls[j].text = "$KILL_SOCKET")
            => i < j
       /\ (ShutdownCalls[i].text = "$KILL_SOCKET" /\ ShutdownCalls[j] = SocketClose)
            => i < j
       /\ (ShutdownCalls[i] = SocketClose /\ ShutdownCalls[j].kind = "ctl") => j < i
  /\ pcC = "closed" => ~output_file.open

\* the flags with the mode of toggle command cmd inverted
Toggled(f, cmd) ==
  CASE cmd = "shm"   -> [f EXCEPT !.shm_mode = ~@]
    [] cmd = "debug" -> [f EXCEPT !.debug_mode = ~@]
    [] cmd = "quiet" -> [f EXCEPT !.is_quiet = ~@]

\* the handler of the second of two toggle commands of the same name has returned
ToggledTwice ==
  /\ cmdsLeft < MaxCmds
  /\ pcC = "idle"
  /\ cmdLocal.cmd \in ToggleCommands
  /\ cmdLocal.prev = cmdLocal.cmd

\* C27: the shm (or acq), debug or quiet command entered twice in a row leaves
\* shm_mode, debug_mode or is_quiet at the value it had before the first; the one
\* step such a command makes after the error flag is cleared inverts its mode and
\* changes no other flag, and no other step changes any of the three modes.
C27_ToggleTwice ==
  [][/\ ToggledTwice' => Modes' = cmdLocal'.prevBefore
     /\ (DispatcherStep /\ pcC \in {"shm_toggle", "debug_toggle", "quiet_toggle"}) =>
          /\ cmdLocal.cmd \in ToggleCommands
          /\ Flags' = Toggled(Flags, cmdLocal.cmd)
          /\ pcC' = "idle"
     /\ Modes' # Modes =>
          (DispatcherStep /\ pcC \in {"shm_toggle", "debug_toggle", "quiet_toggle"})
     /\ (DispatcherStep /\ pcC = "clear" /\ cmdLocal.cmd \in ToggleCommands) =>
          Flags' = [Flags EXCEPT !.had_error = FALSE]]_vars

\* shm has been entered twice and the shared-memory mode is off again
C27_Witness ==
  /\ ToggledTwice
  /\ cmdLocal.cmd = "shm"
  /\ cmdLocal.before.shm /\ ~cmdLocal.prevBefore.shm
  /\ ~shm_mode

\* the one call a close_output_file that finds no file open makes: none of the sink's
\* close, and "No file is open." is printed
NoFileReport == [op |-> "nofile", cont |-> FALSE, id |-> NoFile, n |-> 0]

Booting == {"boot", "boot_key"}
InMcaSession == {"mca_open", "mca_run", "mca_zero", "mca_clrstop", "mca_clr"}

\* C31: the run controller is in a reboot or in an MCA session only while
\* acq_running is false and no list-mode run is open; when it finds do_reboot or
\* do_MCA_run set while acq_running is true it sets stop_acq and nothing else, and
\* the request stays set until the reboot or the MCA session has been made.
C31_NoBootInsideRun ==
  [][/\ (pcR \in Booting \cup InMcaSession)' =>
          (~acq_running' /\ tick'.listMode = 0)
     /\ (RunControllerStep /\ pcR = "reboot" /\ do_reboot /\ acq_running) =>
          pcR' = "reboot_stop"
     /\ (RunControllerStep /\ pcR = "mca" /\ do_MCA_run /\ acq_running) =>
          pcR' = "mca_stop"
     /\ (RunControllerStep /\ pcR \in {"reboot_stop", "mca_stop"}) =>
          Flags' = [Flags EXCEPT !.stop_acq = TRUE]
     /\ (do_reboot /\ ~do_reboot') => (RunControllerStep /\ pcR = "boot_key")
     /\ (do_MCA_run /\ ~do_MCA_run') => (RunControllerStep /\ pcR = "mca_clr")]_vars

\* the run controller has found do_reboot set in a tick in which a list-mode run is
\* open, and is about to ask for the stop
C31_Witness ==
  /\ pcR = "reboot_stop"
  /\ do_reboot /\ acq_running
  /\ tick.listMode = 1
  /\ ~stop_acq

\* C32: a tick that finds start_acq set and acq_running false calls
\* StartListModeRun, once; when the call succeeds acq_running becomes true, when it
\* fails acq_running stays false and had_error is set; either way start_acq is
\* cleared before the tick goes on.  A tick that finds start_acq set and acq_running
\* true clears start_acq without a call of StartListModeRun.
C32_StartOncePerTick ==
  [][/\ (pcR = "start_go")' => (start_acq' /\ ~acq_running')
     /\ RunControllerStep =>
          /\ (pcR = "start" /\ start_acq /\ ~acq_running) => pcR' = "start_go"
          /\ (pcR = "start" /\ ~(start_acq /\ ~acq_running)) => pcR' = "start_else"
          /\ pcR = "start_go" =>
               /\ "start" \notin tick.did /\ "start" \in tick'.did
               /\ \/ pcR' = "start_clr" /\ Flags' = [Flags EXCEPT !.acq_running = TRUE]
                  \/ pcR' = "start_err" /\ Flags' = Flags
          /\ pcR = "start_err" =>
               /\ pcR' = "start_clr"
               /\ Flags' = [Flags EXCEPT !.had_error = TRUE]
               /\ ~acq_running'
          /\ pcR = "start_clr" =>
               /\ pcR' = "acq" /\ tick' = tick
               /\ Flags' = [Flags EXCEPT !.start_acq = FALSE]
          /\ (pcR = "start_else" /\ start_acq /\ acq_running) =>
               /\ pcR' = "start_clr" /\ tick' = tick
               /\ "start" \notin tick.did
          /\ ("start" \in tick'.did /\ "start" \notin tick.did) => pcR = "start_go"
          /\ (tick'.listMode > tick.listMode) => pcR = "start_go"]_vars

\* StartListModeRun has failed in this tick: acq_running is false, had_error is set
\* and start_acq is about to be cleared
C32_Witness ==
  /\ pcR = "start_clr"
  /\ "start" \in tick.did
  /\ ~acq_running /\ had_error /\ start_acq
  /\ tick.listMode = 0

\* C35: in a run started with record_data set, every spill the run controller drains
\* before the run is ended, the one drained for the operator's stop included, is
\* handed to write_data while the output file is open: no spill of the run is broadcast
\* without being written.
C35_RecordingRunWritesSpills ==
  [][ (RunControllerStep /\ pcR = "fifo_write" /\ tick.recRun = "on" /\ output_file.open)
        => \E i \in DOMAIN sinkLog' : sinkLog'[i].op = "write" ]_vars

\* the run controller starts a list-mode run
RunBegins == RunControllerStep /\ pcR = "start_go" /\ acq_running'

\* C36: a stop request does not outlive the run it was made for: however the
\* dispatcher's test and set in StopAcq and kill interleave with the run controller's
\* handling of a stop, stop_acq is false whenever a new list-mode run begins.
C36_NoStopLeftOver == [][ RunBegins => ~stop_acq' ]_vars

\* C40: after every call of open_output_file, close_output_file, write_data, StartRun
\* and Poll::close that is made on its own, from a state in which file_open tells
\* whether the output file is open, file_open is true exactly if the file is open; so it is
\* when an open fails, when an open is refused because a file is open, and when the
\* file that continues a full one cannot be opened.
C40_FileOpenFlag == file_open = SinkIsOpen(output_file)

\* C20: when the handler of stop or stopacq runs while the MCA run is going on, it
\* has set stop_acq by the time it returns (so that mca->Run ends before its time
\* is up).
C20_StopEndsMca ==
  (cmdsLeft < MaxCmds /\ pcC = "idle" /\ cmdLocal.cmd \in {"stop", "stopacq"}
     /\ cmdLocal.duringMca) => cmdLocal.stopSet

(***************************************************************************)
(* Claims about the spills of ReadFIFO (SpecFIFO)                          *)
(***************************************************************************)
\* the last drain handed a spill to write_data and broadcast_data
Emitted == drain.result = "spill"

\* where the segment of module m starts, given the event words of the modules before
RECURSIVE SegStart(_)
SegStart(m) == IF m = 0 THEN 0 ELSE SegStart(m - 1) + 2 + Len(drain.out[m - 1])

\* C1: in every spill ReadFIFO emits, the first word of each module's segment is the
\* number of words of the segment (itself, the module word and the event words), it
\* is at least 2, and the segment lengths add up to dataWords.
C1_SegmentLengths ==
  Emitted =>
    /\ \A m \in Mods :
         /\ At(fifoData, SegStart(m)) = 2 + Len(drain.out[m])
         /\ At(fifoData, SegStart(m)) >= 2
         /\ \A i \in 1 .. Len(drain.out[m]) :
              At(fifoData, SegStart(m) + 1 + i) = drain.out[m][i]
    /\ SegStart(NumCards) = dataWords
    /\ sinkLog # <<>> => sinkLog[Len(sinkLog)].n = dataWords

\* a spill with event words in the segments of module 0 and module 1
C1_Witness ==
  /\ Emitted
  /\ drain.out[0] # <<>> /\ drain.out[1] # <<>>
  /\ dataWords > 2 * NumCards

\* the module words met when the spill is walked from one length word to the next;
\* -1 stands for a length word that leads nowhere
RECURSIVE WalkSegments(_, _, _)
WalkSegments(buf, pos, endWords) ==
  IF pos = endWords THEN <<>>
  ELSE IF pos + 2 > endWords \/ At(buf, pos) < 2 THEN << -1 >>
  ELSE << At(buf, pos + 1) >> \o WalkSegments(buf, pos + At(buf, pos), endWords)

\* C2: every spill ReadFIFO emits holds exactly one segment per module, in ascending
\* module order, the second word of the k-th segment being k, whether the module was
\* read, was below MIN_FIFO_READ or kept a straddling tail.
C2_OneSegmentPerModule ==
  Emitted => WalkSegments(fifoData, 0, dataWords) = [k \in 1 .. NumCards |-> k - 1]

\* a spill in which module 0 was below MIN_FIFO_READ and module 1 kept a straddling tail
C2_Witness ==
  /\ Emitted
  /\ drain.nWords[0] < MIN_FIFO_READ
  /\ drain.nWords[1] >= MIN_FIFO_READ
  /\ drain.post[1] # <<>>

\* words is a sequence of whole events, each as long as its header says
RECURSIVE WholeEvents(_)
WholeEvents(words) ==
  \/ words = <<>>
  \/ /\ EventSizeRead(words[1]) >= 1
     /\ EventSizeRead(words[1]) <= Len(words)
     /\ WholeEvents(SubSeq(words, EventSizeRead(words[1]) + 1, Len(words)))

\* words is the beginning of one event, short of its end
CutEvent(words) == words # <<>> /\ EventSizeRead(words[1]) > Len(words)

\* a step from one emitting drain of the FIFOs to the next drain, which emits too
ConsecutiveSpills ==
  /\ drain.result = "spill"
  /\ drain'.count = drain.count + 1
  /\ drain'.result = "spill"

\* C3 as stated: over two consecutive emitting drains D1 and D2 the events emitted for
\* module m are every event read at D1, in order, none twice, none left out; an event
\* cut off at the end of D1's read is emitted once, whole, in D2.
C3_CutEventInNextSpill ==
  [][ConsecutiveSpills =>
       \A m \in Mods :
         /\ drain.pre[m] \o drain.got[m] \o drain'.got[m]
              = drain.out[m] \o drain'.out[m] \o drain'.post[m]
         /\ drain.post[m] # <<>> =>
              /\ Len(drain'.out[m]) >= EventSizeRead(drain.post[m][1])
              /\ SubSeq(drain'.out[m], 1, Len(drain.post[m])) = drain.post[m]]_vars

\* C3 amended: over two consecutive emitting drains D1 and D2 the words taken for
\* module m (the partial event held before D1 and the words read at D1 and D2) are,
\* in order and each once, the events emitted in D1, the events emitted in D2 and the
\* partial event held after D2; what is emitted is whole events only.  An event cut
\* off at the end of D1's read is emitted once, whole, first in D2's segment, if D2
\* reads the module and its words complete the event; otherwise D2 emits nothing for
\* m and the event's words all stay in the partial buffer.
C3_StraddleConservation ==
  [][ConsecutiveSpills =>
       \A m \in Mods :
         /\ drain'.pre[m] = drain.post[m]
         /\ drain.pre[m] \o drain.got[m] \o drain'.got[m]
              = drain.out[m] \o drain'.out[m] \o drain'.post[m]
         /\ WholeEvents(drain.out[m]) /\ WholeEvents(drain'.out[m])
         /\ drain'.post[m] = <<>> \/ CutEvent(drain'.post[m])
         /\ drain.post[m] # <<>> =>
              LET size == EventSizeRead(drain.post[m][1])
                  have == drain.post[m] \o drain'.got[m]
              IN IF drain'.nWords[m] >= MIN_FIFO_READ /\ Len(have) >= size
                 THEN SubSeq(drain'.out[m], 1, size) = SubSeq(have, 1, size)
                 ELSE drain'.out[m] = <<>> /\ drain'.post[m] = have]_vars

\* the second of two emitting drains starts its segment of module 0 with the event
\* the first had cut off
C3_Witness ==
  /\ Emitted /\ drain.prev = "spill"
  /\ drain.pre[0] # <<>>
  /\ Len(drain.out[0]) >= EventSizeRead(drain.pre[0][1])
  /\ SubSeq(drain.out[0], 1, Len(drain.pre[0])) = drain.pre[0]

\* the last tick got into ReadFIFO's loop over the modules
Drained == drain.result \in {"spill", "full", "readfail", "corrupt"}

\* the loop over the modules got to module m: it did not return at a module before
ReachedModule(m) == \A k \in 0 .. (m - 1) : drain.abortMod # k

\* the drain made no call of the output file and sent nothing
NothingEmitted == sinkLog = <<>> /\ netOut = <<>>

\* C12: if a module the drain gets to reports a FIFO depth of EXTERNAL_FIFO_LENGTH or
\* more, ReadFIFO returns false at that module with had_error and stop_acq set,
\* nothing of the drain is written or broadcast, and the run controller ends the run
\* in the same tick: acq_running and stop_acq are cleared.
C12_FullFifoAborts ==
  \A m \in Mods :
    (Drained /\ ReachedModule(m) /\ drain.nWords[m] >= EXTERNAL_FIFO_LENGTH) =>
      /\ drain.result = "full" /\ drain.abortMod = m
      /\ drain.err /\ drain.stop
      /\ NothingEmitted
      /\ dataWords = SumSeq([k \in 1 .. m |-> 2 + Len(drain.out[k - 1])])
      /\ ~acq_running /\ ~stop_acq /\ had_error

\* a recording drain found the FIFO of module 1 full
C12_Witness ==
  /\ drain.result = "full" /\ drain.abortMod = 1
  /\ drain.nWords[1] = EXTERNAL_FIFO_LENGTH
  /\ drain.rec /\ output_file.open
  /\ ~acq_running

\* the parse of words, taken event by event, meets a header that names another slot
\* than module mod's or has an event size of 0
RECURSIVE BadHeader(_, _)
BadHeader(words, mod) ==
  /\ words # <<>>
  /\ \/ SlotRead(words[1]) # GetSlotNumber(mod)
     \/ EventSizeRead(words[1]) = 0
     \/ BadHeader(SubSeq(words, EventSizeRead(words[1]) + 1, Len(words)), mod)

\* C13: if the words parsed for a module (its partial event and the words read) hold,
\* where a header is expected, a word with another slot than the module's or with an
\* event size of 0, the drain returns false at that module with had_error and
\* stop_acq set and nothing of the drain is written or broadcast; a drain takes the
\* corruption branch for no other reason.
C13_CorruptHeaderAborts ==
  /\ \A m \in Mods :
       (Drained /\ drain.got[m] # <<>> /\ BadHeader(drain.pre[m] \o drain.got[m], m)) =>
         /\ drain.result = "corrupt" /\ drain.abortMod = m
         /\ drain.err /\ drain.stop
         /\ NothingEmitted
         /\ ~acq_running /\ had_error
  /\ drain.result = "corrupt" =>
       /\ drain.got[drain.abortMod] # <<>>
       /\ BadHeader(drain.pre[drain.abortMod] \o drain.got[drain.abortMod], drain.abortMod)

\* a recording drain read module 0 and met a bad header in module 1
C13_Witness ==
  /\ drain.result = "corrupt" /\ drain.abortMod = 1
  /\ drain.got[0] # <<>> /\ drain.out[0] = drain.got[0]
  /\ drain.rec /\ output_file.open
  /\ NothingEmitted

\* the last drain returned false
Aborted == drain.result \in {"full", "readfail", "corrupt"}

\* C14 as stated: after a drain that aborts at module m, partial[m] is what it was
\* if the drain had not copied it into the spill buffer, and is empty if it had.
C14_ClearedOnceCopied ==
  Aborted =>
    IF drain.copied[drain.abortMod]
    THEN partialEvent[drain.abortMod] = <<>>
    ELSE partialEvent[drain.abortMod] = drain.pre[drain.abortMod]

\* C14 amended: after a drain that aborts at module m on a full FIFO, partial[m] had
\* not been copied and is unchanged; on a FIFO read failure partial[m] had been copied
\* into the spill buffer and is unchanged all the same (it is cleared only after a
\* read that succeeds); on a corrupted header partial[m] had been copied and is
\* empty.  The partial events of the modules after m are unchanged.
C14_PartialAfterAbort ==
  Aborted =>
    LET m == drain.abortMod
    IN /\ m \in Mods
       /\ drain.post = partialEvent
       /\ drain.result = "full" =>
            ~drain.copied[m] /\ partialEvent[m] = drain.pre[m]
       /\ drain.result = "readfail" =>
            drain.copied[m] /\ partialEvent[m] = drain.pre[m]
       /\ drain.result = "corrupt" =>
            drain.copied[m] /\ partialEvent[m] = <<>>
       /\ \A k \in Mods : k > m => (~drain.copied[k] /\ partialEvent[k] = drain.pre[k])

\* a FIFO read failed at module 0 after its partial event was copied, and the
\* partial event is still held
C14_Witness ==
  /\ drain.result = "readfail" /\ drain.abortMod = 0
  /\ drain.copied[0]
  /\ drain.pre[0] # <<>> /\ partialEvent[0] = drain.pre[0]

\* the last pass of ReadFIFO drained because force_spill was set, and emitted a
\* spill in which module m, holding a partial event, had an empty FIFO
ForcedOverPartial(m) ==
  /\ Emitted
  /\ runLocal.forced
  /\ drain.nWords[m] = 0
  /\ drain.pre[m] # <<>>

DrainedBelowMinimum ==
  /\ Drained
  /\ \A m \in Mods : drain.nWords[m] < MIN_FIFO_READ

\* a step in which ReadFIFO drains
DrainStep == drain'.count = drain.count + 1

\* C29: a drain made while every module's depth is below MIN_FIFO_READ is made
\* because of stop_acq or force_spill; it emits exactly [2, 0, 2, 1, ..., 2, N-1],
\* 2N words in total (the words written when the run is recorded), reads no FIFO
\* and leaves every partial event unchanged.
C29_EmptyDrain ==
  [][(DrainStep /\ DrainedBelowMinimum') =>
       /\ stop_acq \/ force_spill
       /\ Emitted'
       /\ dataWords' = 2 * NumCards
       /\ \A m \in Mods :
            /\ At(fifoData', 2 * m) = 2
            /\ At(fifoData', 2 * m + 1) = m
            /\ drain'.got[m] = <<>> /\ drain'.out[m] = <<>>
            /\ ~drain'.copied[m]
       /\ fifo' = fifo
       /\ partialEvent' = partialEvent
       /\ record_data =>
            sinkLog' # <<>> /\ sinkLog'[Len(sinkLog')].n = 2 * NumCards
       /\ netOut' # <<>>]_vars

\* a stop drained a recorded run while module 1 held fewer than MIN_FIFO_READ words
\* in its FIFO and a partial event
C29_Witness ==
  /\ DrainedBelowMinimum
  /\ runLocal.stop /\ ~runLocal.forced
  /\ drain.rec /\ sinkLog # <<>>
  /\ drain.nWords[1] > 0
  /\ drain.pre[1] # <<>>

\* a step in which ReadFIFO passes without draining: nothing of the hardware, of the
\* commands or of the drains changes
IdlePassStep ==
  /\ drain' = drain
  /\ produced' = produced
  /\ stop_acq' = stop_acq /\ force_spill' = force_spill /\ had_error' = had_error

\* ReadFIFO's condition for draining, on what the pass found
DrainCondition(found) == found.over \/ found.stop \/ found.forced

\* C30 as stated: a pass of ReadFIFO emits a spill if and only if, after the
\* threshold wait, a module is over threshWords or stop_acq or force_spill is set;
\* a pass that does not emits nothing and leaves the FIFOs, the partial events and
\* force_spill unchanged; a pass that drains clears force_spill.
C30_SpillIffCondition ==
  [][/\ DrainStep => (Emitted' <=> DrainCondition(runLocal'))
     /\ DrainStep => DrainCondition(runLocal')
     /\ IdlePassStep => ~DrainCondition(runLocal')]_vars

\* C30 amended: a pass of ReadFIFO drains if and only if, after the threshold wait,
\* a module is over threshWords or stop_acq or force_spill is set.  A pass that
\* drains clears force_spill (the run controller sets it again in the same tick if a
\* module is still busy after the stop) and emits a spill unless it returns false
\* on a full FIFO, a failed FIFO read or a corrupted header, in which case nothing is
\* written or broadcast.  A pass that does not drain reads no FIFO word, writes
\* nothing, broadcasts nothing and leaves the partial events and force_spill
\* unchanged.
C30_DrainIffCondition ==
  [][/\ DrainStep =>
          /\ DrainCondition(runLocal')
          /\ runLocal'.over = (\E m \in Mods : drain'.nWords[m] > threshWords)
          /\ runLocal'.stop = stop_acq /\ runLocal'.forced = force_spill
          /\ drain'.result # "crash" =>
               /\ force_spill' = drain'.busy
               /\ Emitted' <=> ~Aborted'
               /\ Emitted' => netOut' # <<>> /\ (record_data => sinkLog' # <<>>)
               /\ Aborted' => NothingEmitted' /\ disk' = disk
     /\ IdlePassStep =>
          /\ ~DrainCondition(runLocal')
          /\ fifo' = fifo /\ partialEvent' = partialEvent
          /\ fifoData' = fifoData /\ dataWords' = dataWords
          /\ NothingEmitted' /\ disk' = disk /\ output_file' = output_file]_vars

\* a pass drained because a module was over the threshold, no stop or spill being
\* asked for, and returned false on a corrupted header without emitting a spill
C30_Witness ==
  /\ drain.result = "corrupt"
  /\ runLocal.over /\ ~runLocal.stop /\ ~runLocal.forced
  /\ NothingEmitted
  /\ ~force_spill

\* the words of the event that words, taken event by event, ends in the middle of
RECURSIVE CutTail(_)
CutTail(words) ==
  IF words = <<>> THEN <<>>
  ELSE LET size == EventSizeRead(words[1])
       IN IF size = 0 \/ size > Len(words) THEN words
          ELSE CutTail(SubSeq(words, size + 1, Len(words)))

\* the drain read total words from module 0, the last event claiming size words of
\* which present have been read
CutDrain(total, size, present) ==
  /\ Emitted
  /\ drain.nWords[0] = total /\ Len(drain.got[0]) = total
  /\ WholeEvents(SubSeq(drain.got[0], 1, total - present))
  /\ Len(CutTail(drain.got[0])) = present
  /\ EventSizeRead(CutTail(drain.got[0])[1]) = size

\* C25 as stated: a drain of 250 words of module 0 whose last event claims 60 words
\* while 50 of them are there writes 242 as the length word of module 0's segment
\* and moves 10 words to partial[0].
C25_TenWordsMoved ==
  CutDrain(250, 60, 50) =>
    /\ At(fifoData, 0) = 242
    /\ Len(partialEvent[0]) = 10

\* C25 amended: a drain of W words of module 0 whose last event claims more words
\* than the present ones that are there emits the W - present words of the whole
\* events, writes W - present + 2 as the length word of module 0's segment and
\* moves the present words of the cut event to partial[0]: with W = 250, a claimed
\* size of 60 and 50 words present, the length word is 202 and 50 words are moved.
C25_PresentWordsMoved ==
  /\ \A size \in CutSizes, present \in 1 .. MaxEventSize :
       (present < size /\ CutDrain(drain.nWords[0], size, present)) =>
         /\ At(fifoData, 0) = drain.nWords[0] - present + 2
         /\ At(fifoData, 1) = 0
         /\ drain.out[0] = SubSeq(drain.got[0], 1, drain.nWords[0] - present)
         /\ partialEvent[0] = CutTail(drain.got[0])
         /\ Len(partialEvent[0]) = present
         /\ dataWords = drain.nWords[0] - present + 2 * NumCards
  /\ CutDrain(250, 60, 50) =>
       /\ At(fifoData, 0) = 202
       /\ Len(partialEvent[0]) = 50

\* module 0 held 250 words, the last 50 of them of an event of 60 words, and the
\* drain has emitted its spill
C25_Witness ==
  /\ CutDrain(250, 60, 50)
  /\ partialEvent[0] # <<>>
  /\ fifo[0] = <<>>

\* where the walk over words, from one header to the next by the event sizes, ends:
\* at the number of the words or past it
RECURSIVE WalkEnd(_, _)
WalkEnd(words, pos) ==
  IF pos >= Len(words) THEN pos
  ELSE WalkEnd(words, pos + EventSizeRead(words[pos + 1]))

\* the header of the last event the walk over words meets
RECURSIVE LastHeader(_, _)
LastHeader(words, pos) ==
  IF pos + EventSizeRead(words[pos + 1]) >= Len(words) THEN words[pos + 1]
  ELSE LastHeader(words, pos + EventSizeRead(words[pos + 1]))

\* the drain emitted a spill after it found, in the partial event and the words read
\* of module m, a last event that is longer than what is there
Straddled(m) ==
  /\ Emitted
  /\ drain.got[m] # <<>>
  /\ WalkEnd(drain.pre[m] \o drain.got[m], 0) > Len(drain.pre[m]) + Len(drain.got[m])

\* C33: when the last event of module m's segment (the partial event put in front
\* and the W[m] words read) is missingWords words longer than the segment, the
\* eventSize - missingWords words of the event that are there, from its header on
\* and in order, are moved to partial[m], and the length word of the segment is
\* (old partial length + W[m] - partialSize) + 2.
C33_StraddleSizes ==
  \A m \in Mods :
    Straddled(m) =>
      LET segment == drain.pre[m] \o drain.got[m]
          missingWords == WalkEnd(segment, 0) - Len(segment)
          eventSize == EventSizeRead(LastHeader(segment, 0))
          partialSize == eventSize - missingWords
      IN /\ Len(drain.got[m]) = drain.nWords[m]
         /\ partialSize >= 1
         /\ Len(partialEvent[m]) = partialSize
         /\ partialEvent[m] = SubSeq(segment, Len(segment) - partialSize + 1, Len(segment))
         /\ partialEvent[m][1] = LastHeader(segment, 0)
         /\ drain.out[m] = SubSeq(segment, 1, Len(segment) - partialSize)
         /\ At(fifoData, SegStart(m))
              = (Len(drain.pre[m]) + drain.nWords[m] - partialSize) + 2

\* the drain put the partial event of module 0 in front of the words read, emitted
\* the event they complete and moved the beginning of the next event to the partial
\* event
C33_Witness ==
  /\ Straddled(0)
  /\ drain.pre[0] # <<>>
  /\ drain.out[0] # <<>>
  /\ partialEvent[0] # <<>> /\ partialEvent[0] # drain.pre[0]

\* the headers of the events that make up words
RECURSIVE HeadersOf(_, _)
HeadersOf(words, pos) ==
  IF pos >= Len(words) THEN {}
  ELSE {words[pos + 1]} \cup HeadersOf(words, pos + EventSizeRead(words[pos + 1]))

\* how many of the calls of AddEvent in calls report the event of header w of module m
TimesAdded(calls, m, w) ==
  Cardinality({ i \in DOMAIN calls : calls[i] = StatsEvent(m, w) })

\* C38: an event that reaches the output stream is reported to the statistics
\* (AddEvent with its module, its channel and 4 * eventSize bytes) once, an event cut
\* by one drain and completed by the next included: of two successive drains that
\* emit a spill, the calls of AddEvent of both report every event the second emits
\* exactly once.
C38_CountedOnce ==
  [][ (DrainStep /\ drain.result = "spill" /\ drain'.result = "spill") =>
        \A m \in Mods : \A w \in HeadersOf(drain'.out[m], 0) :
          TimesAdded(drain.added[m] \o drain'.added[m], m, w) = 1 ]_vars

\* C15: when a stop has been handled and a module's run status is still 1, the
\* run controller has set force_spill and made one more drain that read the FIFOs:
\* force_spill is consumed and no FIFO holds MIN_FIFO_READ words or more.
C15_ResidualFlushed ==
  (~acq_running /\ drain.busy) =>
    /\ ~force_spill
    /\ \A m \in Mods : Len(fifo[m]) < MIN_FIFO_READ

(***************************************************************************)
(* Claims about write_data and broadcast_data (SpecFlush)                  *)
(***************************************************************************)
\* the step of SpecFlush in which a recording drain hands its spill to write_data
RecordingFlush == drain.result = "none" /\ drain'.result = "spill" /\ record_data

\* the ceiling test, restated: the file that is open cannot take the spill and
\* the 65552 bytes of end-of-file buffers within 2^32 bytes
CeilingHit ==
  /\ output_file.open
  /\ FileWords(disk[output_file.id]) + dataWords' + EOF_WORDS > MAX_FILE_SIZE

ContinuationId == <<output_file.id[1], output_file.id[2] + 1>>

\* the files of disk' whose content differs from what disk holds
ChangedFiles == { f \in DOMAIN disk' : f \notin DOMAIN disk \/ disk'[f] # disk[f] }

\* at most one file changes, and it gains exactly the whole spill
SpillInOneFile ==
  /\ Cardinality(ChangedFiles) <= 1
  /\ \A f \in ChangedFiles :
       /\ disk'[f].writes = (IF f \in DOMAIN disk THEN disk[f].writes ELSE <<>>) \o <<dataWords'>>
       /\ FileWords(disk'[f]) + EOF_WORDS <= MAX_FILE_SIZE
  /\ \A f \in DOMAIN disk : f \in DOMAIN disk'

\* the calls a rotation makes before the write: close(true), then open(true)
RotationCalls ==
  /\ Len(sinkLog') = 3
  /\ sinkLog'[1].op = "close" /\ sinkLog'[1].cont /\ sinkLog'[1].id = output_file.id
  /\ sinkLog'[2].op \in {"open", "openfail"} /\ sinkLog'[2].cont
  /\ sinkLog'[3].op = "write" /\ sinkLog'[3].n = dataWords'

\* C4 as stated: when the ceiling test is true the file is closed, a continuation
\* file is opened, and the whole spill is written by one write to that new file.
C4_WrittenToNewFile ==
  [][(RecordingFlush /\ CeilingHit) =>
       /\ RotationCalls
       /\ sinkLog'[2].op = "open"
       /\ output_file'.open /\ output_file'.id = ContinuationId
       /\ disk'[ContinuationId].writes = <<dataWords'>>
       /\ disk'[output_file.id] = disk[output_file.id]]_vars

\* C4 amended: the ceiling test comes before the write. When it is true the file
\* is closed and a continuation open is attempted before the one write of all
\* nWords words; if the open succeeds the whole spill is in the new file and the
\* old file is untouched, if it fails the write is made with no file open and
\* stores nothing. When it is false the one write goes to the file that is open.
\* In every case at most one file receives words of the spill, and it receives all.
C4_CheckBeforeWrite ==
  [][RecordingFlush =>
       /\ SpillInOneFile
       /\ sinkLog'[Len(sinkLog')].op = "write"
       /\ sinkLog'[Len(sinkLog')].n = dataWords'
       /\ Cardinality({ i \in 1 .. Len(sinkLog') : sinkLog'[i].op = "write" }) = 1
       /\ CeilingHit =>
            /\ RotationCalls
            /\ disk'[output_file.id] = disk[output_file.id]
            /\ sinkLog'[2].op = "open" =>
                 /\ output_file'.open /\ output_file'.id = ContinuationId
                 /\ disk'[ContinuationId].writes = <<dataWords'>>
                 /\ sinkLog'[3].id = ContinuationId
            /\ sinkLog'[2].op = "openfail" =>
                 /\ ~output_file'.open
                 /\ ChangedFiles = {}
       /\ (output_file.open /\ ~CeilingHit) =>
            /\ sinkLog' = << [op |-> "write", cont |-> FALSE, id |-> output_file.id,
                              n |-> dataWords'] >>
            /\ ChangedFiles = {output_file.id}]_vars

\* a spill of 10001 words went whole into the continuation file <<1, 1>>
C4_Witness ==
  /\ drain.result = "spill" /\ drain.rec
  /\ dataWords = NET_CHUNK_WORDS + 1
  /\ Len(sinkLog) = 3 /\ sinkLog[1].op = "close"
  /\ output_file.open /\ output_file.id = <<1, 1>>
  /\ disk[<<1, 1>>].writes = <<NET_CHUNK_WORDS + 1>>

\* C5 as stated: across a ceiling rotation the run number is unchanged, the new
\* file is opened as a continuation and record_data is still set.
C5_RecordDataStaysSet ==
  [][(RecordingFlush /\ CeilingHit) =>
       /\ next_run_num' = next_run_num
       /\ output_file'.open /\ output_file'.id = ContinuationId
       /\ record_data']_vars

\* C5 amended: across a ceiling rotation next_run_num is unchanged (close is called
\* with continueRun, so the lookup of the next run number is not made) and the open
\* is made with continueRun; if that open succeeds the new file has the same run
\* number and the next suffix and record_data is still set; if it fails no file is
\* open and record_data is cleared.
C5_RotationKeepsRun ==
  [][(RecordingFlush /\ CeilingHit) =>
       /\ next_run_num' = next_run_num
       /\ RotationCalls
       /\ sinkLog'[2].op = "open" =>
            /\ output_file'.open /\ output_file'.id = ContinuationId
            /\ output_file'.id[1] = next_run_num
            /\ file_open' /\ record_data'
       /\ sinkLog'[2].op = "openfail" =>
            /\ ~output_file'.open /\ ~record_data']_vars

\* a rotation that opened the continuation file of run 1 and left record_data set
C5_Witness ==
  /\ drain.result = "spill" /\ drain.rec /\ record_data
  /\ Len(sinkLog) = 3
  /\ sinkLog[1] = [op |-> "close", cont |-> TRUE, id |-> <<1, 0>>, n |-> 0]
  /\ sinkLog[2] = [op |-> "open", cont |-> TRUE, id |-> <<1, 1>>, n |-> 0]
  /\ next_run_num = 1

\* the packets of the spill among the messages of the last handler
ChunkMsgs == SelectSeq(netOut, LAMBDA m : m.kind = "chunk")

\* the packet whose chunk_index is k
ChunkOf(k) == ChunkMsgs[CHOOSE j \in 1 .. Len(ChunkMsgs) : ChunkMsgs[j].words[1] = k]

\* the words after the 8-byte header of a packet
Payload(m) == SubSeq(m.words, 3, m.len \div 4)

\* ceil(n / 10000)
CeilChunks(n) == (n + NET_CHUNK_WORDS - 1) \div NET_CHUNK_WORDS

\* C6: in shared-memory mode the payloads of a spill's packets, put together in
\* chunk_index order, are exactly the 4n bytes of the spill, and when record_data
\* was set the same words and word count were handed to the output file's Write.
C6_BroadcastEqualsSpill ==
  (drain.result = "spill" /\ drain.shm /\ dataWords >= 1) =>
    LET total == Len(ChunkMsgs)
        spill == SubSeq(fifoData, 1, dataWords)
    IN /\ \A k \in 1 .. total : \E j \in 1 .. total : ChunkMsgs[j].words[1] = k
       /\ Flatten([k \in 1 .. total |-> Payload(ChunkOf(k))]) = spill
       /\ SumSeq([k \in 1 .. total |-> ChunkMsgs[k].len - 8]) = 4 * dataWords
       /\ drain.rec =>
            /\ sinkData = spill
            /\ sinkLog[Len(sinkLog)].op = "write"
            /\ sinkLog[Len(sinkLog)].n = dataWords

\* a recorded spill of 20001 words broadcast in three packets
C6_Witness ==
  /\ drain.result = "spill" /\ drain.shm /\ drain.rec
  /\ dataWords = 2 * NET_CHUNK_WORDS + 1
  /\ Len(ChunkMsgs) = 3
  /\ Len(sinkData) = dataWords

\* C7: in shared-memory mode a spill of n words is sent as ceil(n / 10000) packets;
\* the k-th carries chunk_index k and total_chunks ceil(n / 10000); every packet but
\* the last is 40008 bytes long and the last (n - 10000 * (total - 1) + 2) * 4 bytes.
C7_ChunkCountAndSizes ==
  (drain.result = "spill" /\ drain.shm) =>
    LET total == CeilChunks(dataWords)
    IN /\ Len(ChunkMsgs) = total
       /\ Len(netOut) = total + Len(SelectSeq(netOut, LAMBDA m : m.kind = "ctl"))
       /\ \A k \in 1 .. total :
            /\ ChunkMsgs[k].words[1] = k
            /\ ChunkMsgs[k].words[2] = total
            /\ k < total => ChunkMsgs[k].len = 40008
            /\ k = total => ChunkMsgs[k].len = (dataWords - NET_CHUNK_WORDS * (total - 1) + 2) * 4

\* a spill of 20000 words: two packets, the last one full as well
C7_Witness ==
  /\ drain.result = "spill" /\ drain.shm
  /\ dataWords = 2 * NET_CHUNK_WORDS
  /\ Len(ChunkMsgs) = 2
  /\ ChunkMsgs[2].len = 40008

====
